---- MODULE Spec2Model ----
(***************************************************************************)
(* The agent loop of gentica/llm/agent: Run, Cancel, ClearQueue, the turn  *)
(* worker (processGeneration, streamAndHandleEvents, processEvent) and the *)
(* worker's cleanup, as a state machine over the agent's shared maps and   *)
(* each Run call's local state.                                            *)
(*                                                                         *)
(* A Run call and the worker it may spawn share one identifier c: pc[c]    *)
(* is the position of the call and, after the spawn, of the goroutine.     *)
(***************************************************************************)
EXTENDS Integers, Sequences, FiniteSets, TLC

\* ------------------------------------------------------------------ bounds

\* Run calls made in one behaviour.
MaxRuns == 2
\* Prompts enqueued while the turn of the turn specification is running.
MaxQueued == 2
\* Tool calls one assistant message may carry.
MaxToolCalls == 2
\* Model rounds of one turn that may end with finish reason tool-use.
MaxToolRounds == 1

\* Agent runs nested by delegation in one behaviour.
MaxDepth == 5

\* ------------------------------------------------------------ value spaces

Sessions == {"s1", "s2"}

Calls == 1..(IF MaxRuns > MaxQueued THEN MaxRuns ELSE MaxQueued + 1)

\* A prompt is a number: 0 is the empty string, c is the text of Run call c.
NoPrompt == 0

\* No Run call: the value of a deleted activeRequests entry.
NoCall == 0

\* a.config.Tools holds one tool; a call may name it or a name not configured.
ConfiguredTools == {"ls"}

ToolNames == {"ls", "nope"}

\* message.FinishReason; "" is the zero value (no finish part).
FinishReasonEndTurn == "end_turn"

FinishReasonToolUse == "tool_use"

FinishReasonCanceled == "canceled"

FinishReasonError == "error"

FinishReasonPermissionDenied == "permission_denied"

AgentStateIdle == "idle"

AgentStateProcessing == "processing"

\* The terminal AgentEvent of a turn: a Response with Done, or an Error whose
\* error is the sentinel, a bare ctx.Err(), or a wrapped failure.
EventResponse == "response"

ErrRequestCancelled == "ErrRequestCancelled"

ErrContextCanceled == "context.Canceled"

ErrDeadlineExceeded == "context.DeadlineExceeded"

ErrFailed == "failed"

VARIABLES
    activeRequests,  \* a.activeRequests: session -> the call whose cancel func is stored
    promptQueue,     \* a.promptQueue: session -> sequence of prompts
    state,           \* a.state
    cancelPc,        \* position of the Cancel call in progress ("idle" when none)
    cancelSess,      \* its sessionID
    pc,              \* position of each Run call / worker
    sess,            \* sessionID of each Run call
    content,         \* content of each Run call
    ctx,             \* genCtx: live, canceled (by Cancel), parent_canceled, deadline, finished
    msgHistory,      \* the messages this turn appended to msgHistory
    finish,          \* FinishReason() of the assistant message in memory
    persisted,       \* finish reason of the assistant message in the store
    hasAssistant,    \* an assistant message of the current round was created
    toolCalls,       \* assistantMsg.ToolCalls(): sequence of tool names
    sawComplete,     \* the stream of the current round delivered a complete event
    idx,             \* loop index i of the tool loop
    toolResults,     \* toolResults
    toolErr,         \* per call, the error its tool returned ("" when not run)
    invoked,         \* indices of the calls whose tool.Run was started
    hasToolMessage,  \* streamAndHandleEvents returned a Tool message (toolResults != nil)
    rounds,          \* model rounds streamed so far in this turn
    toolRounds,      \* of which ended with finish reason tool-use
    result,          \* the terminal AgentEvent of the turn ("" while running)
    received,        \* events the caller received on the channel
    endPoint,        \* where the worker stood when genCtx ended ("" while it is live)
    sessions,        \* a.sessions: session -> stored cost and token totals
    tracked,         \* TrackUsage's local sess, the value its Get returned
    usage,           \* event.Response.Usage of the complete event being tracked
    caPc,            \* position of the CancelAll call in progress ("idle" when none)
    caSessions,      \* its sessionIDs not yet cancelled
    caInFlight,      \* the calls whose requests were active when it took sessionIDs
    resultIds,       \* ToolCallID of each entry of toolResults
    updates,         \* a.messages.Update calls made by the last processEvent call
    mgrPc,           \* position of InitializeAgents: config, first, second, done, failed
    cfg,             \* cfg.Agents: the disabled agents and each agent's AllowedAgents
    visited,         \* keys of cfg.Agents the current range loop has visited
    agents,          \* the local map agents: id -> generation of its instance (0: none)
    registry,        \* manager.agents: id -> generation of the registered instance
    wraps,           \* per recreated agent, the instance its tool agent_<peer> wraps
    chain,           \* the agent instances of a run and of the runs it delegated to
    made             \* agent tools built by direct NewAgentToolWithID calls

vars ==
    <<activeRequests, promptQueue, state, cancelPc, cancelSess, pc, sess,
      content, ctx, msgHistory, finish, persisted, hasAssistant, toolCalls,
      sawComplete, idx, toolResults, toolErr, invoked, hasToolMessage, rounds,
      toolRounds, result,
      received, endPoint, sessions, tracked, usage, caPc, caSessions, caInFlight,
      resultIds, updates, mgrPc, cfg, visited, agents, registry, wraps, chain, made>>

shared == <<activeRequests, promptQueue, state>>

canceller == <<cancelPc, cancelSess>>

callvars == <<sess, content>>

roundvars ==
    <<finish, persisted, hasAssistant, toolCalls, sawComplete, updates, idx, toolResults, resultIds,
      toolErr, invoked, hasToolMessage>>

turnvars == <<msgHistory, rounds, toolRounds>>

chanvars == <<received>>

tracking == <<sessions, tracked, usage>>

cancelall == <<caPc, caSessions, caInFlight>>

manager == <<mgrPc, cfg, visited, agents, registry, wraps, chain, made>>

\* ---------------------------------------------------------------- helpers

\* Positions at which the goroutine of a call exists and has not finished.
WorkerPcs ==
    {"start", "loop", "create", "stream", "track", "tracksave", "postcheck", "tools",
     "toolwait", "out", "decide", "cleanup", "isbusy", "setidle", "finish", "panicked"}

Running(c) == pc[c] \in WorkerPcs

\* Positions inside the loop of processGeneration: before a model round, while
\* provider events are consumed, before a tool call and while one executes.
TurnPcs ==
    {"loop", "create", "stream", "track", "tracksave", "postcheck", "tools", "toolwait"}

\* The assistant message of the current round exists and has no finish reason.
InProgress(c) ==
    /\ pc[c] \in {"stream", "track", "tracksave", "postcheck", "tools", "toolwait", "out",
                 "decide"}
    /\ hasAssistant[c]
    /\ finish[c] = ""

\* Where the worker of c stands: inside the loop of its turn or not, with an
\* assistant message in progress or not.
Point(c) ==
    IF pc[c] \in TurnPcs
    THEN IF InProgress(c) THEN "turn+msg" ELSE "turn"
    ELSE IF InProgress(c) THEN "msg" ELSE "other"

\* close(events) is the goroutine's last statement.
Closed(c) == pc[c] = "done"

\* requestMutex is held across steps only by Cancel, between its two sections.
RequestMutexFree == cancelPc = "idle"

UserMessage(p) == [role |-> "user", text |-> p]

AssistantMessage == [role |-> "assistant", text |-> NoPrompt]

ToolMessage == [role |-> "tool", text |-> NoPrompt]

\* A variant of line 453 in which the loop stays at the call it just handled.
SameIndex(i) == i

\* Line 453, for i, toolCall := range toolCalls: the index after i.
NextIndex(i) == i + 1

\* The zero value of ToolResult.ToolCallID in a slot of toolResults that no
\* result was written to (line 451).
NoToolCallID == 0

\* toolCalls[i].ID: the calls of one message carry distinct identifiers, here
\* the position of the call.
ToolCallID(i) == i

\* A variant of lines 458-464 and 509-515 that leaves the identifiers of the
\* cancelled results unset.
IdsKept(ids, i) == ids

\* The ToolCallIDs after every slot from index i on was given the result of
\* its own call (lines 458-464, 509-515 and 525-536).
IdsFrom(ids, i) ==
    [j \in 1..Len(ids) |-> IF j >= i THEN ToolCallID(j) ELSE ids[j]]

ZeroResult == [content |-> "", isError |-> FALSE]

CanceledResult == [content |-> "Tool execution canceled by user", isError |-> TRUE]

\* A variant of lines 478-482 that leaves the error flag of the result unset.
NotFoundResultUnflagged(n) == [content |-> "Tool not found: " \o n, isError |-> FALSE]

\* Lines 478-482: the result of a call that names no configured tool.
NotFoundResult(n) == [content |-> "Tool not found: " \o n, isError |-> TRUE]

PermissionDeniedResult == [content |-> "Permission denied", isError |-> TRUE]

\* A session.Session, reduced to its cost (in millionths of the currency unit)
\* and token totals.
ZeroSession == [cost |-> 0, promptTokens |-> 0, completionTokens |-> 0]

\* A TokenUsage (lines 96-101).
Usage(in, out, cc, cr) ==
    [inputTokens |-> in, outputTokens |-> out, cacheCreationTokens |-> cc,
     cacheReadTokens |-> cr]

ZeroUsage == Usage(0, 0, 0, 0)

\* ctx.Err() of a context in state k.
CtxErr(k) ==
    IF k = "deadline" THEN ErrDeadlineExceeded ELSE ErrContextCanceled

\* errors.Is(err, context.Canceled) for the ctx.Err() of a context in state k.
IsCanceled(k) == k \in {"canceled", "parent_canceled"}

\* The identifiers of the agents in cfg.Agents.
AgentIds == {"a", "b", "c"}

\* No instance of an agent: the key is absent from a map.
NoInstance == 0

\* A configuration with no allow-list and no disabled agent.
NoConfig == [disabled |-> {}, allowed |-> [x \in AgentIds |-> {}]]

Init ==
    /\ activeRequests = [s \in Sessions |-> NoCall]
    /\ promptQueue = [s \in Sessions |-> <<>>]
    /\ state = AgentStateIdle
    /\ cancelPc = "idle"
    /\ cancelSess = "s1"
    /\ pc = [c \in Calls |-> "idle"]
    /\ sess = [c \in Calls |-> "s1"]
    /\ content = [c \in Calls |-> NoPrompt]
    /\ ctx = [c \in Calls |-> "live"]
    /\ msgHistory = [c \in Calls |-> <<>>]
    /\ finish = [c \in Calls |-> ""]
    /\ persisted = [c \in Calls |-> ""]
    /\ hasAssistant = [c \in Calls |-> FALSE]
    /\ toolCalls = [c \in Calls |-> <<>>]
    /\ sawComplete = [c \in Calls |-> FALSE]
    /\ idx = [c \in Calls |-> 1]
    /\ toolResults = [c \in Calls |-> <<>>]
    /\ toolErr = [c \in Calls |-> <<>>]
    /\ invoked = [c \in Calls |-> {}]
    /\ hasToolMessage = [c \in Calls |-> FALSE]
    /\ rounds = [c \in Calls |-> 0]
    /\ toolRounds = [c \in Calls |-> 0]
    /\ result = [c \in Calls |-> ""]
    /\ received = [c \in Calls |-> <<>>]
    /\ endPoint = [c \in Calls |-> ""]
    /\ sessions = [s \in Sessions |-> ZeroSession]
    /\ tracked = [c \in Calls |-> ZeroSession]
    /\ usage = [c \in Calls |-> ZeroUsage]
    /\ caPc = "idle"
    /\ caSessions = {}
    /\ caInFlight = {}
    /\ resultIds = [c \in Calls |-> <<>>]
    /\ updates = [c \in Calls |-> 0]
    /\ mgrPc = "config"
    /\ cfg = NoConfig
    /\ visited = {}
    /\ agents = [x \in AgentIds |-> NoInstance]
    /\ registry = [x \in AgentIds |-> NoInstance]
    /\ wraps = [x \in AgentIds |-> [p \in AgentIds |-> NoInstance]]
    /\ chain = <<>>
    /\ made = {}

\* ------------------------------------------------------------------- Run

\* Run, line 243: a.IsSessionBusy(sessionID) under requestMutex.RLock.
RunIsSessionBusy(c, s, p) ==
    /\ pc[c] = "idle"
    /\ \A d \in Calls : d < c => pc[d] # "idle"
    /\ RequestMutexFree
    /\ sess' = [sess EXCEPT ![c] = s]
    /\ content' = [content EXCEPT ![c] = p]
    /\ pc' = [pc EXCEPT ![c] = IF activeRequests[s] # NoCall THEN "enqueue" ELSE "register"]
    /\ UNCHANGED <<shared, canceller, manager, ctx, roundvars, turnvars, result, chanvars, tracking,
                   cancelall, endPoint>>

\* A variant of lines 244-247 that puts the prompt at the head of the queue.
RunEnqueueFront(c) ==
    /\ pc[c] = "enqueue"
    /\ promptQueue' = [promptQueue EXCEPT ![sess[c]] = <<content[c]>> \o @]
    /\ pc' = [pc EXCEPT ![c] = "returned"]
    /\ UNCHANGED <<activeRequests, state, canceller, callvars, manager, ctx, roundvars, turnvars,
                   result, chanvars, tracking, cancelall, endPoint>>

\* Run, lines 244-247: append to the queue under queueMutex, return (nil, nil).
RunEnqueue(c) ==
    /\ pc[c] = "enqueue"
    /\ promptQueue' = [promptQueue EXCEPT ![sess[c]] = Append(@, content[c])]
    /\ pc' = [pc EXCEPT ![c] = "returned"]
    /\ UNCHANGED <<activeRequests, state, canceller, callvars, manager, ctx, roundvars, turnvars,
                   result, chanvars, tracking, cancelall, endPoint>>

\* Run, lines 250-254: derive genCtx and store its cancel func under requestMutex.
RunRegister(c) ==
    /\ pc[c] = "register"
    /\ RequestMutexFree
    /\ activeRequests' = [activeRequests EXCEPT ![sess[c]] = c]
    /\ pc' = [pc EXCEPT ![c] = "spawn"]
    /\ UNCHANGED <<promptQueue, state, canceller, callvars, manager, ctx, roundvars, turnvars,
                   result, chanvars, tracking, cancelall, endPoint>>

\* Run, lines 255-257 and 295: setState(Processing), start the goroutine, return.
RunSpawn(c) ==
    /\ pc[c] = "spawn"
    /\ state' = AgentStateProcessing
    /\ pc' = [pc EXCEPT ![c] = "start"]
    /\ UNCHANGED <<activeRequests, promptQueue, canceller, callvars, manager, ctx, roundvars,
                   turnvars, result, chanvars, tracking, cancelall, endPoint>>

\* ---------------------------------------------------- Cancel, ClearQueue

\* A variant of lines 195-199 that invokes the cancel func and leaves the entry
\* in the map.
CancelSectionKeepEntry(s) ==
    /\ cancelPc = "idle"
    /\ LET c == activeRequests[s] IN
        IF c # NoCall
        THEN /\ ctx' = [ctx EXCEPT ![c] = IF @ = "live" THEN "canceled" ELSE @]
             /\ endPoint' = [endPoint EXCEPT ![c] = IF ctx[c] = "live" THEN Point(c) ELSE @]
        ELSE UNCHANGED <<ctx, endPoint>>
    /\ cancelPc' = "queue"
    /\ cancelSess' = s
    /\ UNCHANGED <<activeRequests, promptQueue, state, pc, callvars, manager, roundvars, turnvars,
                   result, chanvars, tracking>>

\* Cancel, lines 191-199: under requestMutex, invoke and delete the cancel func.
CancelSection(s) ==
    /\ cancelPc = "idle"
    /\ LET c == activeRequests[s] IN
        IF c # NoCall
        THEN /\ ctx' = [ctx EXCEPT ![c] = IF @ = "live" THEN "canceled" ELSE @]
             /\ endPoint' = [endPoint EXCEPT ![c] = IF ctx[c] = "live" THEN Point(c) ELSE @]
             /\ activeRequests' = [activeRequests EXCEPT ![s] = NoCall]
        ELSE UNCHANGED <<ctx, endPoint, activeRequests>>
    /\ cancelPc' = "queue"
    /\ cancelSess' = s
    /\ UNCHANGED <<promptQueue, state, pc, callvars, manager, roundvars, turnvars, result, chanvars,
                   tracking>>

\* A Cancel(s) call of the agent's user enters its first section.
CancelActive(s) ==
    /\ CancelSection(s)
    /\ UNCHANGED cancelall

\* A variant of lines 202-208 that enters the second section only once no
\* worker of the session runs.
CancelQueueAfterWorkers ==
    /\ cancelPc = "queue"
    /\ \A c \in Calls : sess[c] = cancelSess => ~Running(c)
    /\ promptQueue' = [promptQueue EXCEPT ![cancelSess] = <<>>]
    /\ cancelPc' = "idle"
    /\ UNCHANGED <<activeRequests, state, cancelSess, pc, callvars, manager, ctx, roundvars,
                   turnvars, result, chanvars, tracking, cancelall, endPoint>>

\* Cancel, lines 202-208: under queueMutex, drop the session's queue; both
\* mutexes are released on return.
CancelQueue ==
    /\ cancelPc = "queue"
    /\ promptQueue' = [promptQueue EXCEPT ![cancelSess] = <<>>]
    /\ cancelPc' = "idle"
    /\ UNCHANGED <<activeRequests, state, cancelSess, pc, callvars, manager, ctx, roundvars,
                   turnvars, result, chanvars, tracking, cancelall, endPoint>>

\* ClearQueue, lines 656-663.
ClearQueue(s) ==
    /\ Len(promptQueue[s]) > 0
    /\ promptQueue' = [promptQueue EXCEPT ![s] = <<>>]
    /\ UNCHANGED <<activeRequests, state, canceller, pc, callvars, manager, ctx, roundvars, turnvars,
                   result, chanvars, tracking, cancelall, endPoint>>

\* The ctx handed to Run is cancelled by the caller or reaches its deadline:
\* genCtx, derived from it at line 250, ends with the same error.
ParentCtxEnd(c, kind) ==
    /\ Running(c)
    /\ ctx[c] = "live"
    /\ ctx' = [ctx EXCEPT ![c] = kind]
    /\ endPoint' = [endPoint EXCEPT ![c] = Point(c)]
    /\ UNCHANGED <<shared, canceller, pc, callvars, manager, roundvars, turnvars, result, chanvars, tracking, cancelall>>

\* ------------------------------------------------------ processGeneration

\* The turn ends with terminal event r: processGeneration returns to the
\* goroutine of Run, which goes on to its cleanup.
Return(c, r) ==
    /\ result' = [result EXCEPT ![c] = r]
    /\ pc' = [pc EXCEPT ![c] = "cleanup"]

\* processGeneration, lines 300-329: List, Get and createUserMessage; ok is
\* whether the store calls succeeded.
CreateUserMessage(c, ok) ==
    /\ pc[c] = "start"
    /\ IF ok
       THEN /\ msgHistory' = [msgHistory EXCEPT ![c] = <<UserMessage(content[c])>>]
            /\ pc' = [pc EXCEPT ![c] = "loop"]
            /\ UNCHANGED result
       ELSE /\ Return(c, ErrFailed)
            /\ UNCHANGED msgHistory
    /\ UNCHANGED <<shared, canceller, callvars, manager, ctx, roundvars, rounds, toolRounds,
                   chanvars, tracking, cancelall, endPoint>>

\* processGeneration, lines 333-338: the cancellation check before each round.
LoopCheck(c) ==
    /\ pc[c] = "loop"
    /\ IF ctx[c] # "live"
       THEN Return(c, CtxErr(ctx[c]))
       ELSE /\ pc' = [pc EXCEPT ![c] = "create"]
            /\ UNCHANGED result
    /\ UNCHANGED <<shared, canceller, callvars, manager, ctx, roundvars, turnvars, chanvars, tracking, cancelall, endPoint>>

\* streamAndHandleEvents, lines 419-433: create the assistant message, then open
\* the provider stream over msgHistory. When Create fails (lines 425-427),
\* processGeneration (lines 340-347) answers with the sentinel if the failure is
\* the context's cancellation and with a wrapped error otherwise.
CreateAssistantMessage(c, ok) ==
    /\ pc[c] = "create"
    /\ IF ok
       THEN /\ hasAssistant' = [hasAssistant EXCEPT ![c] = TRUE]
            /\ finish' = [finish EXCEPT ![c] = ""]
            /\ persisted' = [persisted EXCEPT ![c] = ""]
            /\ toolCalls' = [toolCalls EXCEPT ![c] = <<>>]
            /\ sawComplete' = [sawComplete EXCEPT ![c] = FALSE]
            /\ updates' = [updates EXCEPT ![c] = 0]
            /\ idx' = [idx EXCEPT ![c] = 1]
            /\ toolResults' = [toolResults EXCEPT ![c] = <<>>]
            /\ resultIds' = [resultIds EXCEPT ![c] = <<>>]
            /\ toolErr' = [toolErr EXCEPT ![c] = <<>>]
            /\ invoked' = [invoked EXCEPT ![c] = {}]
            /\ hasToolMessage' = [hasToolMessage EXCEPT ![c] = FALSE]
            /\ rounds' = [rounds EXCEPT ![c] = @ + 1]
            /\ pc' = [pc EXCEPT ![c] = "stream"]
            /\ UNCHANGED result
       ELSE /\ Return(c, IF IsCanceled(ctx[c]) THEN ErrRequestCancelled ELSE ErrFailed)
            /\ hasAssistant' = [hasAssistant EXCEPT ![c] = FALSE]
            /\ UNCHANGED <<finish, persisted, toolCalls, sawComplete, updates, idx, toolResults, resultIds,
                           toolErr, invoked, hasToolMessage, rounds>>
    /\ UNCHANGED <<shared, canceller, callvars, manager, ctx, msgHistory, toolRounds, chanvars, tracking, cancelall,
                   endPoint>>

\* ------------------------------------------------- streamAndHandleEvents

\* streamAndHandleEvents returns: its locals (the tool calls read from the
\* message, toolResults, the loop index) go out of scope.
ScopeExit(c) ==
    /\ toolCalls' = [toolCalls EXCEPT ![c] = <<>>]
    /\ sawComplete' = [sawComplete EXCEPT ![c] = FALSE]
    /\ updates' = [updates EXCEPT ![c] = 0]
    /\ idx' = [idx EXCEPT ![c] = 1]
    /\ toolResults' = [toolResults EXCEPT ![c] = <<>>]
    /\ resultIds' = [resultIds EXCEPT ![c] = <<>>]
    /\ toolErr' = [toolErr EXCEPT ![c] = <<>>]
    /\ invoked' = [invoked EXCEPT ![c] = {}]

\* A variant of finishMessage that leaves the message as it is.
FinishMessageSkipped(c, reason, stored) == UNCHANGED <<finish, persisted>>

\* finishMessage(ctx, msg, reason, ...): AddFinish replaces the finish part in
\* memory; the Update's error is discarded, so the store holds the reason only
\* if the Update went through (stored).
FinishMessage(c, reason, stored) ==
    /\ finish' = [finish EXCEPT ![c] = reason]
    /\ persisted' = [persisted EXCEPT ![c] = IF stored THEN reason ELSE @]

\* The events a provider stream may carry. Deltas of text, thinking, signature
\* and tool input change only the message's content, which is not modelled:
\* they are one kind here.
DeltaEvent ==
    [type |-> "delta", name |-> "", reason |-> "", calls |-> <<>>, usage |-> ZeroUsage]

ToolUseStartEvent(n) ==
    [type |-> "tool_use_start", name |-> n, reason |-> "", calls |-> <<>>, usage |-> ZeroUsage]

ErrorEvent ==
    [type |-> "error", name |-> "", reason |-> "", calls |-> <<>>, usage |-> ZeroUsage]

\* A complete event with finish reason r, tool calls tcs and usage u.
CompleteEvent(r, tcs, u) ==
    [type |-> "complete", name |-> "", reason |-> r, calls |-> tcs, usage |-> u]

\* Sequences of tool names of length at most n.
CallSeqs(n) == UNION {[1..k -> ToolNames] : k \in 0..n}

\* Outcomes of the Update of one processEvent: it succeeds or fails.
StoreOutcomes == {"ok", "update"}

\* A variant of processEvent that applies the delta events without a call of
\* a.messages.Update.
UpdatesBuffered(ev) == IF ev.type \in {"error", "delta"} THEN 0 ELSE 1

\* processEvent, lines 583-627: the a.messages.Update calls it makes for the
\* assistant message when it applies event ev: one in every case of the
\* switch but EventError, which returns the error at once.
UpdatesOf(ev) == IF ev.type = "error" THEN 0 ELSE 1

\* streamAndHandleEvents, lines 436-444 with processEvent, lines 574-631, and on
\* an error the answer of processGeneration, lines 340-347. ev is the event
\* received, so the outcome of the checked store calls, fin whether the Update of
\* a finishMessage that runs under ctx goes through.
ProcessEvent(c, ev, so, fin) ==
    /\ pc[c] = "stream"
    /\ ev.type = "tool_use_start" => Len(toolCalls[c]) < MaxToolCalls
    /\ ev.type = "complete" =>
        /\ ~sawComplete[c]
        /\ ev.reason = FinishReasonToolUse => toolRounds[c] < MaxToolRounds
    /\ IF ctx[c] # "live"
       THEN \* lines 575-577: processEvent returns ctx.Err()
            /\ IF IsCanceled(ctx[c])
               THEN /\ FinishMessage(c, FinishReasonCanceled, TRUE)
                    /\ Return(c, ErrRequestCancelled)
               ELSE /\ FinishMessage(c, FinishReasonError, fin)
                    /\ Return(c, ErrFailed)
            /\ ScopeExit(c)
            /\ UNCHANGED <<toolRounds, usage>>
       ELSE IF ev.type = "error"
       THEN \* line 610: the provider's error
            /\ FinishMessage(c, FinishReasonError, fin)
            /\ Return(c, ErrFailed)
            /\ ScopeExit(c)
            /\ UNCHANGED <<toolRounds, usage>>
       ELSE IF so # "ok"
       THEN \* the Update of the event failed
            /\ FinishMessage(c, FinishReasonError, fin)
            /\ Return(c, ErrFailed)
            /\ ScopeExit(c)
            /\ UNCHANGED <<toolRounds, usage>>
       ELSE IF ev.type = "complete"
       THEN \* lines 611-627: SetToolCalls, AddFinish, Update, then TrackUsage is called
            /\ toolCalls' = [toolCalls EXCEPT ![c] = ev.calls]
            /\ sawComplete' = [sawComplete EXCEPT ![c] = TRUE]
            /\ updates' = [updates EXCEPT ![c] = UpdatesOf(ev)]
            /\ toolRounds' = [toolRounds EXCEPT ![c] =
                                IF ev.reason = FinishReasonToolUse THEN @ + 1 ELSE @]
            /\ FinishMessage(c, ev.reason, TRUE)
            /\ usage' = [usage EXCEPT ![c] = ev.usage]
            /\ pc' = [pc EXCEPT ![c] = "track"]
            /\ UNCHANGED <<result, idx, toolResults, resultIds, toolErr, invoked>>
       ELSE \* lines 583-608: the delta, start and stop events, each with its Update
            /\ toolCalls' = [toolCalls EXCEPT ![c] =
                               IF ev.type = "tool_use_start" THEN Append(@, ev.name) ELSE @]
            /\ pc' = [pc EXCEPT ![c] = "postcheck"]
            /\ updates' = [updates EXCEPT ![c] = UpdatesOf(ev)]
            /\ UNCHANGED <<finish, persisted, result, sawComplete, toolRounds, idx,
                           toolResults, resultIds, toolErr, invoked, usage>>
    /\ UNCHANGED <<shared, canceller, callvars, manager, ctx, hasAssistant, hasToolMessage, msgHistory, rounds,
                   chanvars, sessions, tracked, cancelall, endPoint>>

\* ModelInfo.CostPer1MIn, CostPer1MOut, CostPer1MInCached, CostPer1MOutCached
\* (lines 57-60) of the configured model, as whole numbers.
CostPer1MIn == 3

CostPer1MOut == 15

CostPer1MInCached == 4

CostPer1MOutCached == 1

\* TrackUsage, lines 639-642: the cost of usage u, in millionths.
Price(u) ==
    CostPer1MInCached * u.cacheCreationTokens + CostPer1MOutCached * u.cacheReadTokens
        + CostPer1MIn * u.inputTokens + CostPer1MOut * u.outputTokens

\* TrackUsage, lines 644-646: the session value to save, from the value old
\* that Get returned and the usage u.
TrackedSession(old, u) ==
    [cost |-> old.cost + Price(u),
     completionTokens |-> u.outputTokens + u.cacheReadTokens,
     promptTokens |-> u.inputTokens + u.cacheCreationTokens]

\* Outcomes of a store call of TrackUsage: it succeeds, fails, or fails with the
\* error of the ended context it was given.
TrackOutcomes == {"ok", "fail", "ctx"}

\* TrackUsage returned an error: processEvent returns it (line 627) and
\* streamAndHandleEvents, lines 437-443, finishes the message; then the answer
\* of processGeneration, lines 340-347.
TrackFailed(c, out, fin) ==
    /\ IF out = "ctx" /\ IsCanceled(ctx[c])
       THEN /\ FinishMessage(c, FinishReasonCanceled, TRUE)
            /\ Return(c, ErrRequestCancelled)
       ELSE /\ FinishMessage(c, FinishReasonError, fin)
            /\ Return(c, ErrFailed)
    /\ ScopeExit(c)

\* TrackUsage, lines 634-637: a.sessions.Get.
TrackUsageGet(c, out, fin) ==
    /\ pc[c] = "track"
    /\ out = "ctx" => ctx[c] # "live"
    /\ IF out = "ok"
       THEN /\ tracked' = [tracked EXCEPT ![c] = sessions[sess[c]]]
            /\ pc' = [pc EXCEPT ![c] = "tracksave"]
            /\ UNCHANGED <<finish, persisted, result, toolCalls, sawComplete, updates, idx,
                           toolResults, resultIds, toolErr, invoked>>
       ELSE /\ TrackFailed(c, out, fin)
            /\ UNCHANGED tracked
    /\ UNCHANGED <<shared, canceller, callvars, manager, ctx, hasAssistant, hasToolMessage, turnvars,
                   chanvars, sessions, usage, cancelall, endPoint>>

\* TrackUsage, lines 639-652: compute the cost, update the local value and
\* a.sessions.Save it; processEvent then returns nil.
TrackUsageSave(c, out, fin) ==
    /\ pc[c] = "tracksave"
    /\ out = "ctx" => ctx[c] # "live"
    /\ IF out = "ok"
       THEN /\ sessions' = [sessions EXCEPT ![sess[c]] = TrackedSession(tracked[c], usage[c])]
            /\ pc' = [pc EXCEPT ![c] = "postcheck"]
            /\ UNCHANGED <<finish, persisted, result, toolCalls, sawComplete, updates, idx,
                           toolResults, resultIds, toolErr, invoked>>
       ELSE /\ TrackFailed(c, out, fin)
            /\ UNCHANGED sessions
    /\ tracked' = [tracked EXCEPT ![c] = ZeroSession]
    /\ UNCHANGED <<shared, canceller, callvars, manager, ctx, hasAssistant, hasToolMessage, turnvars,
                   chanvars, usage, cancelall, endPoint>>

\* streamAndHandleEvents, lines 445-448: the check after each applied event, and
\* the answer of processGeneration, lines 340-347, to the ctx.Err() returned.
StreamCtxCheck(c) ==
    /\ pc[c] = "postcheck"
    /\ IF ctx[c] # "live"
       THEN /\ FinishMessage(c, FinishReasonCanceled, TRUE)
            /\ Return(c, IF IsCanceled(ctx[c]) THEN ErrRequestCancelled ELSE ErrFailed)
            /\ ScopeExit(c)
       ELSE /\ pc' = [pc EXCEPT ![c] = "stream"]
            /\ UNCHANGED <<finish, persisted, result, toolCalls, sawComplete, updates, idx,
                           toolResults, resultIds, toolErr, invoked>>
    /\ UNCHANGED <<shared, canceller, callvars, manager, ctx, hasAssistant, hasToolMessage, turnvars, chanvars, tracking, cancelall,
                   endPoint>>

\* streamAndHandleEvents, lines 436 and 451-452: the provider closed the event
\* channel; toolResults is allocated with one zero value per recorded call.
StreamClose(c) ==
    /\ pc[c] = "stream"
    /\ toolResults' = [toolResults EXCEPT ![c] = [i \in 1..Len(toolCalls[c]) |-> ZeroResult]]
    /\ resultIds' = [resultIds EXCEPT ![c] = [i \in 1..Len(toolCalls[c]) |-> NoToolCallID]]
    /\ toolErr' = [toolErr EXCEPT ![c] = [i \in 1..Len(toolCalls[c]) |-> ""]]
    /\ idx' = [idx EXCEPT ![c] = 1]
    /\ pc' = [pc EXCEPT ![c] = "tools"]
    /\ UNCHANGED <<shared, canceller, callvars, manager, ctx, finish, persisted, hasAssistant, hasToolMessage,
                   toolCalls, sawComplete, updates, invoked, turnvars, result, chanvars, tracking, cancelall, endPoint>>

\* ------------------------------------------------------------ tool loop

\* An error value is an allocation (id) carrying a text. The errors a tool
\* returns are allocated by the tool.
ToolError(text) == [id |-> "tool", text |-> text]

\* Line 524: fmt.Errorf("permission denied") allocates a new error value on
\* every evaluation.
PermissionDeniedTarget == [id |-> "agent:524", text |-> "permission denied"]

\* errors.Is(err, target) for error values that have no Is method and wrap
\* nothing: they are the same allocation.
ErrorsIs(err, target) == err.id = target.id

\* What tool.Run may return: a response (its IsError flag; its content is "out"
\* or empty) and an error, nil or not.
NoError == [id |-> "nil", text |-> ""]

ToolOutcomes ==
    [isError : BOOLEAN, err : {NoError, ToolError("failed"), ToolError("permission denied")}]

\* A variant of lines 458-464 and 509-515 whose inner loop starts at i + 1.
MarkCanceledAfter(results, i) ==
    [j \in 1..Len(results) |-> IF j > i THEN CanceledResult ELSE results[j]]

\* The result of every call from index i on is the canceled result
\* (lines 458-464 and 509-515).
MarkCanceledFrom(results, i) ==
    [j \in 1..Len(results) |-> IF j >= i THEN CanceledResult ELSE results[j]]

\* streamAndHandleEvents, lines 453-500: one pass through the head of the tool
\* loop: the loop ends, or cancellation is observed before call i, or the tool
\* is not configured, or tool.Run is started in its goroutine.
ToolDispatch(c) ==
    /\ pc[c] = "tools"
    /\ LET i == idx[c] IN
        IF i > Len(toolCalls[c])
        THEN /\ pc' = [pc EXCEPT ![c] = "out"]
             /\ UNCHANGED <<finish, persisted, toolResults, resultIds, idx, invoked>>
        ELSE IF ctx[c] # "live"
        THEN /\ FinishMessage(c, FinishReasonCanceled, TRUE)
             /\ toolResults' = [toolResults EXCEPT ![c] = MarkCanceledFrom(@, i)]
             /\ resultIds' = [resultIds EXCEPT ![c] = IdsFrom(@, i)]
             /\ pc' = [pc EXCEPT ![c] = "out"]
             /\ UNCHANGED <<idx, invoked>>
        ELSE IF toolCalls[c][i] \notin ConfiguredTools
        THEN /\ toolResults' = [toolResults EXCEPT ![c][i] = NotFoundResult(toolCalls[c][i])]
             /\ resultIds' = [resultIds EXCEPT ![c][i] = ToolCallID(i)]
             /\ idx' = [idx EXCEPT ![c] = NextIndex(i)]
             /\ UNCHANGED <<finish, persisted, invoked, pc>>
        ELSE /\ invoked' = [invoked EXCEPT ![c] = @ \cup {i}]
             /\ pc' = [pc EXCEPT ![c] = "toolwait"]
             /\ UNCHANGED <<finish, persisted, toolResults, resultIds, idx>>
    /\ UNCHANGED <<shared, canceller, callvars, manager, ctx, hasAssistant, hasToolMessage, toolCalls, sawComplete, updates,
                   toolErr, turnvars, result, chanvars, tracking, cancelall, endPoint>>

\* A variant of lines 505-520 that waits for the tool's result only.
ToolAwaited(c) ==
    /\ pc[c] = "toolwait"
    /\ FALSE
    /\ UNCHANGED vars

\* streamAndHandleEvents, lines 505-516: the select takes the ctx.Done() case
\* while call i is executing.
ToolCancelled(c) ==
    /\ pc[c] = "toolwait"
    /\ ctx[c] # "live"
    /\ FinishMessage(c, FinishReasonCanceled, TRUE)
    /\ toolResults' = [toolResults EXCEPT ![c] = MarkCanceledFrom(@, idx[c])]
    /\ resultIds' = [resultIds EXCEPT ![c] = IdsFrom(@, idx[c])]
    /\ pc' = [pc EXCEPT ![c] = "out"]
    /\ UNCHANGED <<shared, canceller, callvars, manager, ctx, hasAssistant, hasToolMessage, toolCalls, sawComplete, updates,
                   idx, toolErr, invoked, turnvars, result, chanvars, tracking, cancelall, endPoint>>

\* streamAndHandleEvents, lines 517-547: the tool returned o and the select takes
\* the resultChan case (also when ctx.Done() is ready: select picks either).
\* The break at line 538 leaves the select, not the for loop: the loop goes on
\* with call i + 1.
ToolReturned(c, o, fin) ==
    /\ pc[c] = "toolwait"
    /\ LET i == idx[c] IN
        /\ toolErr' = [toolErr EXCEPT ![c][i] = o.err.text]
        /\ IF o.err # NoError /\ ErrorsIs(o.err, PermissionDeniedTarget)
           THEN /\ toolResults' = [toolResults EXCEPT ![c] =
                                     [MarkCanceledFrom(@, i + 1) EXCEPT ![i] = PermissionDeniedResult]]
                /\ resultIds' = [resultIds EXCEPT ![c] = IdsFrom(@, i)]
                /\ FinishMessage(c, FinishReasonPermissionDenied, ctx[c] = "live" \/ fin)
           ELSE /\ toolResults' = [toolResults EXCEPT ![c][i] =
                                     [content |-> IF o.err = NoError THEN "out" ELSE "",
                                      isError |-> o.isError]]
                /\ resultIds' = [resultIds EXCEPT ![c][i] = ToolCallID(i)]
                /\ UNCHANGED <<finish, persisted>>
        /\ idx' = [idx EXCEPT ![c] = NextIndex(i)]
    /\ pc' = [pc EXCEPT ![c] = "tools"]
    /\ UNCHANGED <<shared, canceller, callvars, manager, ctx, hasAssistant, hasToolMessage, toolCalls, sawComplete, updates,
                   invoked, turnvars, result, chanvars, tracking, cancelall, endPoint>>

\* streamAndHandleEvents, lines 549-567: no Tool message for zero results,
\* otherwise Create it (ok: the Create succeeded); on failure processGeneration,
\* line 346, answers with a wrapped error.
ToolsOut(c, ok) ==
    /\ pc[c] = "out"
    /\ IF Len(toolResults[c]) = 0 \/ ok
       THEN /\ pc' = [pc EXCEPT ![c] = "decide"]
            /\ UNCHANGED result
       ELSE Return(c, ErrFailed)
    /\ hasToolMessage' = [hasToolMessage EXCEPT ![c] = Len(toolResults[c]) > 0 /\ ok]
    /\ ScopeExit(c)
    /\ UNCHANGED <<shared, canceller, callvars, manager, ctx, finish, persisted, hasAssistant,
                   turnvars, chanvars, tracking, cancelall, endPoint>>

\* ------------------------------------------- processGeneration, the loop

NonEmpty(p) == p # NoPrompt

\* The prompts of queue q for which a drain calls createUserMessage: all of them
\* after a tool-use round (lines 361-367), the non-empty ones at end-turn
\* (lines 378-387).
DrainedPrompts(q, reason) ==
    IF reason = FinishReasonEndTurn THEN SelectSeq(q, NonEmpty) ELSE q

\* A variant of the drain loops that walks the queued prompts newest first.
UserMessagesNewestFirst(ps, k) == [i \in 1..k |-> UserMessage(ps[Len(ps) + 1 - i])]

\* The User messages of the first k prompts of ps, in order (lines 361-367 and
\* 378-387: createUserMessage, then append to msgHistory).
UserMessages(ps, k) == [i \in 1..k |-> UserMessage(ps[i])]

\* processGeneration, lines 349-403, after streamAndHandleEvents returned without
\* error. k is the number of queued prompts whose createUserMessage succeeded
\* before one failed (all of them when none failed).
Decide(c, k) ==
    /\ pc[c] = "decide"
    /\ LET s == sess[c]
           q == promptQueue[s]
           toolUse == finish[c] = FinishReasonToolUse /\ hasToolMessage[c]
           endTurn == ~toolUse /\ finish[c] = FinishReasonEndTurn
           ps == DrainedPrompts(q, finish[c])
           base == IF toolUse
                   THEN msgHistory[c] \o <<AssistantMessage, ToolMessage>>
                   ELSE msgHistory[c]
       IN
        IF toolUse \/ endTurn
        THEN /\ k \in 0..Len(ps)
             /\ promptQueue' = [promptQueue EXCEPT ![s] = <<>>]
             /\ msgHistory' = [msgHistory EXCEPT ![c] = base \o UserMessages(ps, k)]
             /\ IF k < Len(ps)
                THEN Return(c, ErrFailed)
                ELSE IF toolUse \/ Len(q) > 0
                THEN /\ pc' = [pc EXCEPT ![c] = "loop"]
                     /\ UNCHANGED result
                ELSE Return(c, EventResponse)
             /\ UNCHANGED <<finish, persisted>>
        ELSE /\ k = 0
             /\ IF finish[c] = ""
                THEN /\ FinishMessage(c, FinishReasonCanceled, TRUE)
                     /\ Return(c, ErrRequestCancelled)
                ELSE /\ Return(c, EventResponse)
                     /\ UNCHANGED <<finish, persisted>>
             /\ UNCHANGED <<promptQueue, msgHistory>>
    /\ UNCHANGED <<activeRequests, state, canceller, callvars, manager, ctx, hasAssistant, hasToolMessage, toolCalls,
                   sawComplete, updates, idx, toolResults, resultIds, toolErr, invoked, rounds, toolRounds,
                   chanvars, tracking, cancelall, endPoint>>

\* --------------------------------------------- the goroutine's cleanup

\* Run, lines 278-280: delete the session's entry under requestMutex.
Cleanup(c) ==
    /\ pc[c] = "cleanup"
    /\ RequestMutexFree
    /\ activeRequests' = [activeRequests EXCEPT ![sess[c]] = NoCall]
    /\ pc' = [pc EXCEPT ![c] = "isbusy"]
    /\ UNCHANGED <<promptQueue, state, canceller, callvars, manager, ctx, roundvars, turnvars,
                   result, chanvars, tracking, cancelall, endPoint>>

\* Run, line 282: a.IsBusy() under requestMutex.RLock.
IsBusy(c) ==
    /\ pc[c] = "isbusy"
    /\ RequestMutexFree
    /\ pc' = [pc EXCEPT ![c] =
                IF \E s \in Sessions : activeRequests[s] # NoCall THEN "finish" ELSE "setidle"]
    /\ UNCHANGED <<shared, canceller, callvars, manager, ctx, roundvars, turnvars, result, chanvars, tracking, cancelall,
                   endPoint>>

\* Run, line 283: a.setState(AgentStateIdle) under stateMutex.
SetIdle(c) ==
    /\ pc[c] = "setidle"
    /\ state' = AgentStateIdle
    /\ pc' = [pc EXCEPT ![c] = "finish"]
    /\ UNCHANGED <<activeRequests, promptQueue, canceller, callvars, manager, ctx, roundvars, turnvars,
                   result, chanvars, tracking, cancelall, endPoint>>

\* Run, lines 286-292 and 263: cancel() ends genCtx, so in the select that
\* follows the case <-genCtx.Done() is always ready; a receiving caller makes
\* the send ready too and select picks one of the ready cases (deliver), then
\* the deferred close(events) runs and the goroutine exits: its locals are
\* gone; the event it computed, what the caller received and the store remain.
Finish(c, deliver) ==
    /\ pc[c] = "finish"
    /\ ctx' = [ctx EXCEPT ![c] = "finished"]
    /\ received' = [received EXCEPT ![c] = IF deliver THEN Append(@, result[c]) ELSE @]
    /\ pc' = [pc EXCEPT ![c] = "done"]
    /\ msgHistory' = [msgHistory EXCEPT ![c] = <<>>]
    /\ rounds' = [rounds EXCEPT ![c] = 0]
    /\ toolRounds' = [toolRounds EXCEPT ![c] = 0]
    /\ finish' = [finish EXCEPT ![c] = ""]
    /\ hasAssistant' = [hasAssistant EXCEPT ![c] = FALSE]
    /\ hasToolMessage' = [hasToolMessage EXCEPT ![c] = FALSE]
    /\ endPoint' = [endPoint EXCEPT ![c] = ""]
    /\ tracked' = [tracked EXCEPT ![c] = ZeroSession]
    /\ usage' = [usage EXCEPT ![c] = ZeroUsage]
    /\ UNCHANGED <<shared, canceller, callvars, manager, persisted, toolCalls, sawComplete, updates, idx,
                   toolResults, resultIds, toolErr, invoked, result, sessions, cancelall>>

\* -------------------------------------------------------------- CancelAll

\* Some session has an entry in activeRequests (len(a.activeRequests) > 0).
AnyActive == \E s \in Sessions : activeRequests[s] # NoCall

\* CancelAll, lines 666-668: return at once when IsBusy() is false. A CancelAll
\* call may follow one that has returned.
CancelAllIsBusy ==
    /\ caPc \in {"idle", "returned", "timedout"}
    /\ RequestMutexFree
    /\ caPc' = IF AnyActive THEN "snapshot" ELSE "returned"
    /\ caSessions' = {}
    /\ caInFlight' = {}
    /\ UNCHANGED <<shared, canceller, pc, callvars, manager, ctx, roundvars, turnvars, result,
                   chanvars, tracking, endPoint>>

\* CancelAll, lines 669-674: copy the keys of activeRequests under RLock.
CancelAllSnapshot ==
    /\ caPc = "snapshot"
    /\ RequestMutexFree
    /\ caSessions' = {s \in Sessions : activeRequests[s] # NoCall}
    /\ caInFlight' = {activeRequests[s] : s \in {t \in Sessions : activeRequests[t] # NoCall}}
    /\ caPc' = "cancel"
    /\ UNCHANGED <<shared, canceller, pc, callvars, manager, ctx, roundvars, turnvars, result,
                   chanvars, tracking, endPoint>>

\* CancelAll, lines 676-678: a.Cancel(sessionID) for the next of sessionIDs (the
\* order is that of the map iteration); the call's second section is CancelQueue.
CancelAllCancel(s) ==
    /\ caPc = "cancel"
    /\ s \in caSessions
    /\ CancelSection(s)
    /\ caSessions' = caSessions \ {s}
    /\ UNCHANGED <<caPc, caInFlight>>

\* CancelAll, lines 680-688: after the last Cancel returned, poll IsBusy():
\* return when it is false, return when the timeout has fired (timedOut), sleep
\* and poll again otherwise.
CancelAllPoll(timedOut) ==
    /\ caPc = "cancel"
    /\ caSessions = {}
    /\ RequestMutexFree
    /\ IF AnyActive THEN timedOut ELSE ~timedOut
    /\ caPc' = IF AnyActive THEN "timedout" ELSE "returned"
    /\ UNCHANGED <<shared, canceller, pc, callvars, manager, ctx, roundvars, turnvars, result,
                   chanvars, tracking, endPoint, caSessions, caInFlight>>

\* ------------------------------------------------------------------ panic

\* The Error event of a recovered panic (line 261).
ErrPanic == "panic"

\* Positions inside processGeneration (line 271).
GenerationPcs ==
    {"start", "loop", "create", "stream", "track", "tracksave", "postcheck", "tools",
     "toolwait", "out", "decide"}

\* Code running in processGeneration panics: the stack of the goroutine is
\* unwound to the deferred function of lines 259-264, which recovers; lines
\* 272-292 are skipped.
Panic(c) ==
    /\ pc[c] \in GenerationPcs
    /\ result' = [result EXCEPT ![c] = ErrPanic]
    /\ pc' = [pc EXCEPT ![c] = "panicked"]
    /\ ScopeExit(c)
    /\ msgHistory' = [msgHistory EXCEPT ![c] = <<>>]
    /\ rounds' = [rounds EXCEPT ![c] = 0]
    /\ toolRounds' = [toolRounds EXCEPT ![c] = 0]
    /\ finish' = [finish EXCEPT ![c] = ""]
    /\ hasAssistant' = [hasAssistant EXCEPT ![c] = FALSE]
    /\ hasToolMessage' = [hasToolMessage EXCEPT ![c] = FALSE]
    /\ tracked' = [tracked EXCEPT ![c] = ZeroSession]
    /\ usage' = [usage EXCEPT ![c] = ZeroUsage]
    /\ UNCHANGED <<shared, canceller, callvars, manager, ctx, persisted, chanvars, sessions,
                   cancelall, endPoint>>

\* A variant of lines 260-263 that closes the channel without sending.
RecoverClose(c) ==
    /\ pc[c] = "panicked"
    /\ pc' = [pc EXCEPT ![c] = "done"]
    /\ endPoint' = [endPoint EXCEPT ![c] = ""]
    /\ UNCHANGED <<shared, canceller, callvars, manager, ctx, roundvars, turnvars, result, chanvars,
                   tracking, cancelall>>

\* Lines 260-263: the deferred function sends the Error event to the receiving
\* caller (a send that waits for the receiver), closes the channel, and the
\* goroutine exits.
RecoverSend(c) ==
    /\ pc[c] = "panicked"
    /\ received' = [received EXCEPT ![c] = Append(@, result[c])]
    /\ pc' = [pc EXCEPT ![c] = "done"]
    /\ endPoint' = [endPoint EXCEPT ![c] = ""]
    /\ UNCHANGED <<shared, canceller, callvars, manager, ctx, roundvars, turnvars, result,
                   tracking, cancelall>>

\* ---------------------------------------------------------- AgentManager

\* The variables of the agent loop.
agentvars ==
    <<shared, canceller, pc, callvars, ctx, roundvars, turnvars, result, chanvars, tracking,
      cancelall, endPoint>>

\* The instance that the first pass of InitializeAgents creates for an agent
\* (manager.go, line 68) and the one its second pass creates (line 97).
FirstInstance == 1

SecondInstance == 2

\* A variant of lines 132-134 that gives every agent tool the same name.
AgentToolNameShared(id) == "agent"

\* agentToolWithID.Name, manager.go lines 132-134, and the key of agentTools at
\* line 92: fmt.Sprintf("agent_%s", agentID).
AgentToolName(id) == "agent_" \o id

\* The caller's cfg.Agents: the disabled agents d and the AllowedAgents al of
\* every agent.
Configure(d, al) ==
    /\ mgrPc = "config"
    /\ cfg' = [disabled |-> d, allowed |-> al]
    /\ mgrPc' = "first"
    /\ UNCHANGED <<visited, agents, registry, wraps, chain, made>>
    /\ UNCHANGED agentvars

\* InitializeAgents, manager.go lines 63-75: one iteration of the first range
\* loop, in the order the map yields its keys; ok is whether NewAgent succeeded.
FirstPass(x, ok) ==
    /\ mgrPc = "first"
    /\ x \in AgentIds \ visited
    /\ IF x \in cfg.disabled
       THEN /\ visited' = visited \cup {x}
            /\ UNCHANGED <<mgrPc, agents, registry>>
       ELSE IF ok
       THEN /\ agents' = [agents EXCEPT ![x] = FirstInstance]
            /\ registry' = [registry EXCEPT ![x] = FirstInstance]
            /\ visited' = visited \cup {x}
            /\ UNCHANGED mgrPc
       ELSE /\ mgrPc' = "failed"
            /\ UNCHANGED <<visited, agents, registry>>
    /\ UNCHANGED <<cfg, wraps, chain, made>>
    /\ UNCHANGED agentvars

\* The first range loop has visited every key: the second one starts.
FirstPassEnd ==
    /\ mgrPc = "first"
    /\ visited = AgentIds
    /\ mgrPc' = "second"
    /\ visited' = {}
    /\ UNCHANGED <<cfg, agents, registry, wraps, chain, made>>
    /\ UNCHANGED agentvars

\* Lines 84-94: the agentTools of agent x, as the instance each tool wraps: for
\* every allowed peer that the local map agents holds now, that instance.
AgentTools(x) ==
    [p \in AgentIds |->
        IF p \in cfg.allowed[x] /\ agents[p] # NoInstance THEN agents[p] ELSE NoInstance]

\* InitializeAgents, lines 78-105: one iteration of the second range loop; ok
\* is whether NewAgent succeeded.
SecondPass(x, ok) ==
    /\ mgrPc = "second"
    /\ x \in AgentIds \ visited
    /\ IF x \in cfg.disabled \/ \A p \in AgentIds : AgentTools(x)[p] = NoInstance
       THEN /\ visited' = visited \cup {x}
            /\ UNCHANGED <<mgrPc, agents, registry, wraps>>
       ELSE IF ok
       THEN /\ wraps' = [wraps EXCEPT ![x] = AgentTools(x)]
            /\ agents' = [agents EXCEPT ![x] = SecondInstance]
            /\ registry' = [registry EXCEPT ![x] = SecondInstance]
            /\ visited' = visited \cup {x}
            /\ UNCHANGED mgrPc
       ELSE /\ mgrPc' = "failed"
            /\ UNCHANGED <<visited, agents, registry, wraps>>
    /\ UNCHANGED <<cfg, chain, made>>
    /\ UNCHANGED agentvars

\* Line 107: InitializeAgents returns the manager.
SecondPassEnd ==
    /\ mgrPc = "second"
    /\ visited = AgentIds
    /\ mgrPc' = "done"
    /\ visited' = {}
    /\ UNCHANGED <<cfg, agents, registry, wraps, chain, made>>
    /\ UNCHANGED agentvars

\* The instance whose run is the innermost of the chain.
Top == chain[Len(chain)]

\* The agent tools of an instance: the first instance of an agent was built
\* with none (line 68), the second with its agentTools (line 97).
ToolOf(inst, p) ==
    IF inst.gen = SecondInstance THEN wraps[inst.id][p] ELSE NoInstance

\* The caller takes agent x from the manager (Get, lines 31-33) and runs it.
StartRun(x) ==
    /\ mgrPc = "done"
    /\ chain = <<>>
    /\ registry[x] # NoInstance
    /\ chain' = <<[id |-> x, gen |-> registry[x]]>>
    /\ UNCHANGED <<mgrPc, cfg, visited, agents, registry, wraps, made>>
    /\ UNCHANGED agentvars

\* The model of the innermost run calls the tool agent_p: the tool loop finds
\* it by name among the instance's tools and the tool runs the agent it wraps.
Delegate(p) ==
    /\ chain # <<>>
    /\ Len(chain) < MaxDepth
    /\ ToolOf(Top, p) # NoInstance
    /\ chain' = Append(chain, [id |-> p, gen |-> ToolOf(Top, p)])
    /\ UNCHANGED <<mgrPc, cfg, visited, agents, registry, wraps, made>>
    /\ UNCHANGED agentvars

\* The innermost run ends and its tool returns to the run that called it.
RunEnds ==
    /\ chain # <<>>
    /\ chain' = SubSeq(chain, 1, Len(chain) - 1)
    /\ UNCHANGED <<mgrPc, cfg, visited, agents, registry, wraps, made>>
    /\ UNCHANGED agentvars

\* The agent identifiers and the agents that tools are built for by direct
\* calls of NewAgentToolWithID.
Identifiers == {"", "agent1", "agent2", "agent_agent1"}

MockAgents == {"mock1", "mock2"}

\* NewAgentToolWithID, manager.go lines 111-125: a tool for identifier id that
\* wraps agent.
NewAgentToolWithID(id, agent) ==
    /\ made' = made \cup {[agentID |-> id, agent |-> agent]}
    /\ UNCHANGED <<mgrPc, cfg, visited, agents, registry, wraps, chain>>
    /\ UNCHANGED agentvars

\* agentToolWithID.Name and Info, lines 132-143: the name of tool t.
Name(t) == AgentToolName(t.agentID)

\* ------------------------------------------------------- specifications

\* The concurrency specification: Run calls on session s1, each with its own
\* prompt, Cancel and ClearQueue at any moment; the provider answers each round
\* with an end-turn complete event and the store does not fail.
Next ==
    \/ \E c \in 1..MaxRuns : RunIsSessionBusy(c, "s1", c)
    \/ \E c \in Calls : RunEnqueue(c)
    \/ \E c \in Calls : RunRegister(c)
    \/ \E c \in Calls : RunSpawn(c)
    \/ CancelActive("s1")
    \/ CancelQueue
    \/ ClearQueue("s1")
    \/ \E c \in Calls : CreateUserMessage(c, TRUE)
    \/ \E c \in Calls : LoopCheck(c)
    \/ \E c \in Calls : CreateAssistantMessage(c, TRUE)
    \/ \E c \in Calls : ProcessEvent(c, CompleteEvent(FinishReasonEndTurn, <<>>, ZeroUsage), "ok", TRUE)
    \/ \E c \in Calls : TrackUsageGet(c, "ok", TRUE)
    \/ \E c \in Calls : TrackUsageSave(c, "ok", TRUE)
    \/ \E c \in Calls : StreamCtxCheck(c)
    \/ \E c \in Calls : StreamClose(c)
    \/ \E c \in Calls : ToolDispatch(c)
    \/ \E c \in Calls : ToolsOut(c, TRUE)
    \/ \E c \in Calls : Decide(c, Len(DrainedPrompts(promptQueue[sess[c]], finish[c])))
    \/ \E c \in Calls : Cleanup(c)
    \/ \E c \in Calls : IsBusy(c)
    \/ \E c \in Calls : SetIdle(c)
    \/ \E c \in Calls, deliver \in BOOLEAN : Finish(c, deliver)

Spec == Init /\ [][Next]_vars

\* The events of the turn specification's provider.
TurnEvents ==
    {DeltaEvent, ErrorEvent}
        \cup {ToolUseStartEvent(n) : n \in ToolNames}
        \cup {CompleteEvent(r, tcs, ZeroUsage) : r \in {FinishReasonEndTurn, FinishReasonToolUse},
                                      tcs \in CallSeqs(MaxToolCalls)}

\* The turn specification: one turn of session s1 with Cancel, the caller's
\* context ending, every provider event, every tool outcome and store calls
\* that may fail; no prompt is enqueued.
NextTurn ==
    \/ RunIsSessionBusy(1, "s1", 1)
    \/ RunRegister(1)
    \/ RunSpawn(1)
    \/ CancelActive("s1")
    \/ CancelQueue
    \/ \E kind \in {"parent_canceled", "deadline"} : ParentCtxEnd(1, kind)
    \/ \E ok \in BOOLEAN : CreateUserMessage(1, ok)
    \/ LoopCheck(1)
    \/ \E ok \in BOOLEAN : CreateAssistantMessage(1, ok)
    \/ \E ev \in TurnEvents, so \in StoreOutcomes, fin \in BOOLEAN : ProcessEvent(1, ev, so, fin)
    \/ \E out \in TrackOutcomes, fin \in BOOLEAN : TrackUsageGet(1, out, fin)
    \/ \E out \in TrackOutcomes, fin \in BOOLEAN : TrackUsageSave(1, out, fin)
    \/ StreamCtxCheck(1)
    \/ StreamClose(1)
    \/ ToolDispatch(1)
    \/ ToolCancelled(1)
    \/ \E o \in ToolOutcomes, fin \in BOOLEAN : ToolReturned(1, o, fin)
    \/ \E ok \in BOOLEAN : ToolsOut(1, ok)
    \/ Decide(1, 0)
    \/ Cleanup(1)
    \/ IsBusy(1)
    \/ SetIdle(1)
    \/ \E deliver \in BOOLEAN : Finish(1, deliver)

SpecTurn == Init /\ [][NextTurn]_vars

\* A Run call made while the session has an active request.
RunWhileBusy(c, s, p) ==
    /\ activeRequests[s] # NoCall
    /\ RunIsSessionBusy(c, s, p)

\* The queue specification: one turn of session s1, started by call 1, with
\* prompts (empty or not) enqueued by further Run calls while it is active, and
\* Cancel; the provider ends each round with end-turn or with tool-use and one
\* call of the configured tool, and createUserMessage may fail in a drain.
NextQueue ==
    \/ RunIsSessionBusy(1, "s1", 1)
    \/ \E c \in 2..(MaxQueued + 1), p \in 0..(MaxQueued + 1) :
        p \in {NoPrompt, c} /\ RunWhileBusy(c, "s1", p)
    \/ \E c \in Calls : RunEnqueue(c)
    \/ RunRegister(1)
    \/ RunSpawn(1)
    \/ CancelActive("s1")
    \/ CancelQueue
    \/ CreateUserMessage(1, TRUE)
    \/ LoopCheck(1)
    \/ CreateAssistantMessage(1, TRUE)
    \/ \E ev \in {CompleteEvent(FinishReasonEndTurn, <<>>, ZeroUsage),
                  CompleteEvent(FinishReasonToolUse, <<"ls">>, ZeroUsage)} : ProcessEvent(1, ev, "ok", TRUE)
    \/ TrackUsageGet(1, "ok", TRUE)
    \/ TrackUsageSave(1, "ok", TRUE)
    \/ StreamCtxCheck(1)
    \/ StreamClose(1)
    \/ ToolDispatch(1)
    \/ ToolCancelled(1)
    \/ ToolReturned(1, [isError |-> FALSE, err |-> NoError], TRUE)
    \/ ToolsOut(1, TRUE)
    \/ \E k \in 0..MaxQueued : Decide(1, k)
    \/ Cleanup(1)
    \/ IsBusy(1)
    \/ SetIdle(1)
    \/ \E deliver \in BOOLEAN : Finish(1, deliver)

SpecQueue == Init /\ [][NextQueue]_vars

\* The sessions specification: Run calls, each for either of two sessions,
\* and CancelAll at any moment; the provider answers each round with an
\* end-turn complete event and the store does not fail.
NextSessions ==
    \/ \E c \in 1..MaxRuns, s \in Sessions : RunIsSessionBusy(c, s, c)
    \/ \E c \in Calls : RunEnqueue(c)
    \/ \E c \in Calls : RunRegister(c)
    \/ \E c \in Calls : RunSpawn(c)
    \/ CancelQueue
    \/ CancelAllIsBusy
    \/ CancelAllSnapshot
    \/ \E s \in Sessions : CancelAllCancel(s)
    \/ \E timedOut \in BOOLEAN : CancelAllPoll(timedOut)
    \/ \E c \in Calls : CreateUserMessage(c, TRUE)
    \/ \E c \in Calls : LoopCheck(c)
    \/ \E c \in Calls : CreateAssistantMessage(c, TRUE)
    \/ \E c \in Calls : ProcessEvent(c, CompleteEvent(FinishReasonEndTurn, <<>>, ZeroUsage), "ok", TRUE)
    \/ \E c \in Calls : TrackUsageGet(c, "ok", TRUE)
    \/ \E c \in Calls : TrackUsageSave(c, "ok", TRUE)
    \/ \E c \in Calls : StreamCtxCheck(c)
    \/ \E c \in Calls : StreamClose(c)
    \/ \E c \in Calls : ToolDispatch(c)
    \/ \E c \in Calls : ToolsOut(c, TRUE)
    \/ \E c \in Calls : Decide(c, Len(DrainedPrompts(promptQueue[sess[c]], finish[c])))
    \/ \E c \in Calls : Cleanup(c)
    \/ \E c \in Calls : IsBusy(c)
    \/ \E c \in Calls : SetIdle(c)
    \/ \E c \in Calls, deliver \in BOOLEAN : Finish(c, deliver)

SpecSessions == Init /\ [][NextSessions]_vars

\* The panic specification: Run calls, each for either of two sessions, and
\* workers that may panic inside processGeneration; the provider answers each
\* round with an end-turn complete event and the store does not fail.
NextPanic ==
    \/ \E c \in 1..MaxRuns, s \in Sessions : RunIsSessionBusy(c, s, c)
    \/ \E c \in Calls : RunEnqueue(c)
    \/ \E c \in Calls : RunRegister(c)
    \/ \E c \in Calls : RunSpawn(c)
    \/ \E c \in Calls : CreateUserMessage(c, TRUE)
    \/ \E c \in Calls : LoopCheck(c)
    \/ \E c \in Calls : CreateAssistantMessage(c, TRUE)
    \/ \E c \in Calls : ProcessEvent(c, CompleteEvent(FinishReasonEndTurn, <<>>, ZeroUsage), "ok", TRUE)
    \/ \E c \in Calls : TrackUsageGet(c, "ok", TRUE)
    \/ \E c \in Calls : TrackUsageSave(c, "ok", TRUE)
    \/ \E c \in Calls : StreamCtxCheck(c)
    \/ \E c \in Calls : StreamClose(c)
    \/ \E c \in Calls : ToolDispatch(c)
    \/ \E c \in Calls : ToolsOut(c, TRUE)
    \/ \E c \in Calls : Decide(c, Len(DrainedPrompts(promptQueue[sess[c]], finish[c])))
    \/ \E c \in Calls : Panic(c)
    \/ \E c \in Calls : RecoverSend(c)
    \/ \E c \in Calls : Cleanup(c)
    \/ \E c \in Calls : IsBusy(c)
    \/ \E c \in Calls : SetIdle(c)
    \/ \E c \in Calls, deliver \in BOOLEAN : Finish(c, deliver)

SpecPanic == Init /\ [][NextPanic]_vars

\* The steps of the worker of call 1 that wait for nothing but the scheduler:
\* all its steps inside processGeneration except the return of a tool.
WorkerProgress ==
    \/ CreateUserMessage(1, TRUE)
    \/ LoopCheck(1)
    \/ CreateAssistantMessage(1, TRUE)
    \/ StreamCtxCheck(1)
    \/ TrackUsageGet(1, "ok", TRUE)
    \/ TrackUsageSave(1, "ok", TRUE)
    \/ StreamClose(1)
    \/ ToolDispatch(1)
    \/ ToolCancelled(1)
    \/ ToolsOut(1, TRUE)
    \/ Decide(1, 0)

\* The tool specification: one turn of session s1 whose provider ends each
\* round with tool-use and calls of the configured tool, or with end-turn;
\* a tool may return or never return, Cancel may be called at any moment, and
\* the worker's goroutine is scheduled as long as it has a step to take.
NextTool ==
    \/ RunIsSessionBusy(1, "s1", 1)
    \/ RunRegister(1)
    \/ RunSpawn(1)
    \/ CancelActive("s1")
    \/ CancelQueue
    \/ CreateUserMessage(1, TRUE)
    \/ LoopCheck(1)
    \/ CreateAssistantMessage(1, TRUE)
    \/ \E tcs \in [1..MaxToolCalls -> ConfiguredTools] \cup [1..1 -> ConfiguredTools] :
        ProcessEvent(1, CompleteEvent(FinishReasonToolUse, tcs, ZeroUsage), "ok", TRUE)
    \/ ProcessEvent(1, CompleteEvent(FinishReasonEndTurn, <<>>, ZeroUsage), "ok", TRUE)
    \/ TrackUsageGet(1, "ok", TRUE)
    \/ TrackUsageSave(1, "ok", TRUE)
    \/ StreamCtxCheck(1)
    \/ StreamClose(1)
    \/ ToolDispatch(1)
    \/ ToolCancelled(1)
    \/ \E isError \in BOOLEAN : ToolReturned(1, [isError |-> isError, err |-> NoError], TRUE)
    \/ ToolsOut(1, TRUE)
    \/ Decide(1, 0)
    \/ Cleanup(1)
    \/ IsBusy(1)
    \/ SetIdle(1)
    \/ \E deliver \in BOOLEAN : Finish(1, deliver)

SpecTool == Init /\ [][NextTool]_vars /\ WF_vars(WorkerProgress)

\* The locks specification: one turn of session s1, started by call 1, further
\* Run calls made while it is active, and Cancel, ClearQueue and CancelAll at
\* any moment; the provider answers each round with an end-turn complete event
\* and the store does not fail.
NextLocks ==
    \/ RunIsSessionBusy(1, "s1", 1)
    \/ \E c \in 2..MaxRuns : RunWhileBusy(c, "s1", c)
    \/ \E c \in Calls : RunEnqueue(c)
    \/ RunRegister(1)
    \/ RunSpawn(1)
    \/ CancelActive("s1")
    \/ CancelQueue
    \/ ClearQueue("s1")
    \/ CancelAllIsBusy
    \/ CancelAllSnapshot
    \/ \E s \in Sessions : CancelAllCancel(s)
    \/ \E timedOut \in BOOLEAN : CancelAllPoll(timedOut)
    \/ CreateUserMessage(1, TRUE)
    \/ LoopCheck(1)
    \/ CreateAssistantMessage(1, TRUE)
    \/ ProcessEvent(1, CompleteEvent(FinishReasonEndTurn, <<>>, ZeroUsage), "ok", TRUE)
    \/ TrackUsageGet(1, "ok", TRUE)
    \/ TrackUsageSave(1, "ok", TRUE)
    \/ StreamCtxCheck(1)
    \/ StreamClose(1)
    \/ ToolDispatch(1)
    \/ ToolsOut(1, TRUE)
    \/ Decide(1, Len(DrainedPrompts(promptQueue[sess[1]], finish[1])))
    \/ Cleanup(1)
    \/ IsBusy(1)
    \/ SetIdle(1)
    \/ \E deliver \in BOOLEAN : Finish(1, deliver)

SpecLocks == Init /\ [][NextLocks]_vars

\* The run specification: Run calls on session s1, with Cancel, ClearQueue and
\* CancelAll at any moment; the provider answers each round with an end-turn
\* complete event and the store does not fail.
NextRun ==
    \/ Next
    \/ CancelAllIsBusy
    \/ CancelAllSnapshot
    \/ \E s \in Sessions : CancelAllCancel(s)
    \/ \E timedOut \in BOOLEAN : CancelAllPoll(timedOut)

SpecRun == Init /\ [][NextRun]_vars

\* The usages that the usage specification's provider reports.
ReportedUsages == {Usage(1, 1, 0, 0), Usage(2, 0, 1, 1)}

\* The usage specification: Run calls on session s1, each with its own prompt;
\* the provider answers each round with an end-turn complete event that
\* carries a usage, and the store does not fail.
NextUsage ==
    \/ \E c \in 1..MaxRuns : RunIsSessionBusy(c, "s1", c)
    \/ \E c \in Calls : RunEnqueue(c)
    \/ \E c \in Calls : RunRegister(c)
    \/ \E c \in Calls : RunSpawn(c)
    \/ \E c \in Calls : CreateUserMessage(c, TRUE)
    \/ \E c \in Calls : LoopCheck(c)
    \/ \E c \in Calls : CreateAssistantMessage(c, TRUE)
    \/ \E c \in Calls, u \in ReportedUsages :
        ProcessEvent(c, CompleteEvent(FinishReasonEndTurn, <<>>, u), "ok", TRUE)
    \/ \E c \in Calls : TrackUsageGet(c, "ok", TRUE)
    \/ \E c \in Calls : TrackUsageSave(c, "ok", TRUE)
    \/ \E c \in Calls : StreamCtxCheck(c)
    \/ \E c \in Calls : StreamClose(c)
    \/ \E c \in Calls : ToolDispatch(c)
    \/ \E c \in Calls : ToolsOut(c, TRUE)
    \/ \E c \in Calls : Decide(c, Len(DrainedPrompts(promptQueue[sess[c]], finish[c])))
    \/ \E c \in Calls : Cleanup(c)
    \/ \E c \in Calls : IsBusy(c)
    \/ \E c \in Calls : SetIdle(c)
    \/ \E c \in Calls : Finish(c, TRUE)

SpecUsage == Init /\ [][NextUsage]_vars

\* The manager specification: InitializeAgents on every configuration of the
\* agents a, b and c, with the map's keys visited in any order and NewAgent
\* that may fail, then runs of the registered agents that delegate to the
\* agents their tools wrap.
NextManager ==
    \/ \E d \in SUBSET AgentIds, al \in [AgentIds -> SUBSET AgentIds] : Configure(d, al)
    \/ \E x \in AgentIds, ok \in BOOLEAN : FirstPass(x, ok)
    \/ FirstPassEnd
    \/ \E x \in AgentIds, ok \in BOOLEAN : SecondPass(x, ok)
    \/ SecondPassEnd
    \/ \E x \in AgentIds : StartRun(x)
    \/ \E p \in AgentIds : Delegate(p)
    \/ RunEnds

SpecManager == Init /\ [][NextManager]_vars

\* The agent tool specification: tools built by NewAgentToolWithID for any
\* identifier and any agent.
NextAgentTool ==
    \E id \in Identifiers, agent \in MockAgents : NewAgentToolWithID(id, agent)

SpecAgentTool == Init /\ [][NextAgentTool]_vars

\* ----------------------------------------------------------------- claims

\* C1: at every instant, for every session, at most one turn worker is
\* running: two distinct running workers never belong to the same session.
C1_AtMostOneWorkerPerSession ==
    \A c, d \in Calls : (c # d /\ Running(c) /\ Running(d)) => sess[c] # sess[d]

\* C2: when a worker finishes, unless the context the caller passed to Run had
\* ended first, the caller has received exactly one event, the terminal event of
\* the turn, and the channel is closed after it.
C2_TerminalEventDelivered ==
    [][\A c \in Calls :
        (pc[c] = "finish" /\ pc'[c] = "done" /\ ctx[c] \notin {"parent_canceled", "deadline"})
            => (received'[c] = <<result[c]>> /\ result[c] # "")]_vars

\* C3: a turn whose context Cancel ended while the turn was in flight (inside
\* its loop) ends with the Error event carrying ErrRequestCancelled, never with
\* a Response.
C3_CancelEndsWithSentinel ==
    \A c \in Calls :
        (ctx[c] = "canceled" /\ endPoint[c] \in {"turn", "turn+msg"} /\ result[c] # "")
            => result[c] = ErrRequestCancelled

\* C4: when the turn's context ended (by Cancel, by the caller's cancellation or
\* by a deadline) while an assistant message was in progress, the finish reason
\* stored for that message once the turn has ended is Canceled.
C4_CanceledFinishPersisted ==
    \A c \in Calls :
        (endPoint[c] \in {"turn+msg", "msg"} /\ result[c] # "")
            => persisted[c] = FinishReasonCanceled

\* No Run or Cancel call is in progress and no worker exists: the program takes
\* no further step until it is called again.
Quiescent ==
    /\ cancelPc = "idle"
    /\ \A c \in Calls : pc[c] \in {"idle", "returned", "done"}

\* C5: no accepted prompt is left in a queue while no turn is running: when the
\* agent is at rest every session's queue is empty.
C5_NoPromptLeftBehind ==
    Quiescent => \A s \in Sessions : promptQueue[s] = <<>>

\* C6: a Run call that finds its session in the active-request set goes to the
\* enqueue branch, and the enqueue returns (nil, nil) without becoming or
\* starting a worker, leaves the active-request set unchanged and appends the
\* call's content at the tail of the session's queue, which grows by one.
C6_BusyRunEnqueues ==
    [][\A c \in Calls :
        /\ (pc[c] = "idle" /\ pc'[c] # "idle" /\ activeRequests[sess'[c]] # NoCall)
            => (pc'[c] = "enqueue" /\ UNCHANGED <<activeRequests, promptQueue>>)
        /\ (pc[c] = "enqueue" /\ pc'[c] # "enqueue")
            => /\ pc'[c] = "returned"
               /\ activeRequests' = activeRequests
               /\ \A d \in Calls : pc'[d] \in WorkerPcs <=> pc[d] \in WorkerPcs
               /\ promptQueue'[sess[c]] = Append(promptQueue[sess[c]], content[c])
               /\ Len(promptQueue'[sess[c]]) = Len(promptQueue[sess[c]]) + 1
               /\ \A s \in Sessions \ {sess[c]} : promptQueue'[s] = promptQueue[s]]_vars

\* C6 happens: calls 2 and 3 were made while call 1's request was active, both
\* returned, and the queue holds their prompts in call order.
C6_Witness ==
    /\ pc[2] = "returned"
    /\ pc[3] = "returned"
    /\ activeRequests["s1"] = 1
    /\ promptQueue["s1"] = <<2, 3>>

\* The texts of the User messages of history h, in order.
RECURSIVE UserTexts(_)
UserTexts(h) ==
    IF h = <<>> THEN <<>>
    ELSE IF Head(h).role = "user" THEN <<Head(h).text>> \o UserTexts(Tail(h))
    ELSE UserTexts(Tail(h))

\* The worker of c drains the queue in this step: it leaves the decision point
\* of processGeneration after a tool-use round with tool results or at end-turn.
DrainStep(c) ==
    /\ pc[c] = "decide"
    /\ pc'[c] # "decide"
    /\ \/ finish[c] = FinishReasonToolUse /\ hasToolMessage[c]
       \/ finish[c] = FinishReasonEndTurn

\* C7 as stated: a drain turns every prompt queued at that moment into a User
\* message, in enqueue order, before the next model round, and leaves the
\* session's queue empty.
C7_DrainAppendsAll ==
    [][\A c \in Calls : DrainStep(c) =>
        LET q == promptQueue[sess[c]] IN
            /\ promptQueue'[sess[c]] = <<>>
            /\ UserTexts(msgHistory'[c]) = UserTexts(msgHistory[c]) \o q
            /\ Len(q) > 0 => pc'[c] = "loop"]_vars

\* q is a prefix of r.
IsPrefix(q, r) == Len(q) <= Len(r) /\ \A i \in 1..Len(q) : q[i] = r[i]

\* C7 amended: a drain leaves the session's queue empty; the User messages it
\* appends are, in enqueue order, the prompts queued at that moment (at end-turn
\* the non-empty ones); all of them are appended and the next round follows
\* unless a createUserMessage fails, and then the ones before the failing one
\* were appended and the turn ends with an Error event.
C7_DrainAppendsAllUnlessFailure ==
    [][\A c \in Calls : DrainStep(c) =>
        LET q == promptQueue[sess[c]]
            due == IF finish[c] = FinishReasonEndTurn
                   THEN SelectSeq(q, LAMBDA p : p # NoPrompt)
                   ELSE q
            old == UserTexts(msgHistory[c])
            new == UserTexts(msgHistory'[c])
        IN  /\ promptQueue'[sess[c]] = <<>>
            /\ IsPrefix(old, new)
            /\ IsPrefix(new, old \o due)
            /\ IF new = old \o due
               THEN (Len(q) > 0 => pc'[c] = "loop")
               ELSE pc'[c] = "cleanup" /\ result'[c] = ErrFailed]_vars

\* C7 happens: the turn of call 1 drained the prompts of calls 2 and 3 and
\* stands before its next round with both as User messages, in enqueue order.
C7_Witness ==
    /\ pc[1] = "loop"
    /\ UserTexts(msgHistory[1]) = <<1, 2, 3>>
    /\ promptQueue["s1"] = <<>>
    /\ pc[2] = "returned"
    /\ pc[3] = "returned"

\* The worker of c observes cancellation at the tool call of index idx[c] in
\* this step: it leaves the tool loop before the loop has passed the last call.
CancelObserved(c) ==
    /\ pc[c] \in {"tools", "toolwait"}
    /\ pc'[c] = "out"
    /\ idx[c] <= Len(toolCalls[c])

\* C8: when cancellation is observed at tool call i, the results of the calls
\* before i stay as produced, every call from i on gets the canceled error
\* result, and no tool of a call after i was or will be invoked (the loop is
\* left with the set of invoked calls as it is).
C8_CancellationAtIndex ==
    [][\A c \in Calls : CancelObserved(c) =>
        LET i == idx[c] IN
            /\ Len(toolResults'[c]) = Len(toolCalls[c])
            /\ \A j \in 1..Len(toolCalls[c]) :
                /\ j < i => toolResults'[c][j] = toolResults[c][j]
                /\ j >= i => /\ toolResults'[c][j].isError
                             /\ toolResults'[c][j].content = "Tool execution canceled by user"
                /\ j > i => j \notin invoked'[c]
            /\ finish'[c] = FinishReasonCanceled]_vars

\* C8 happens: cancellation was observed while the first of two calls was
\* executing; its tool was invoked, the second one's was not, and both results
\* are the canceled result.
C8_Witness ==
    /\ pc[1] = "out"
    /\ ctx[1] # "live"
    /\ Len(toolCalls[1]) = 2
    /\ idx[1] = 1
    /\ invoked[1] = {1}
    /\ toolResults[1] = <<CanceledResult, CanceledResult>>

\* C9: once the tool of call i has returned the permission-denied error, the
\* assistant message has finish reason Permission-Denied, no tool of a call
\* after i is invoked, and the turn goes on to no further model round.
C9_PermissionDeniedEndsTurn ==
    \A c \in Calls :
        /\ \A i \in 1..Len(toolErr[c]) :
            toolErr[c][i] = "permission denied"
                => /\ finish[c] = FinishReasonPermissionDenied
                   /\ \A j \in invoked[c] : j <= i
        /\ finish[c] = FinishReasonPermissionDenied => pc[c] \notin {"loop", "create", "stream"}

\* C10: once the tool of call i has returned an error other than permission
\* denied, the turn has not ended and the result recorded for call i has its
\* error flag set, whatever response came with the error.
C10_ToolErrorSetsIsError ==
    \A c \in Calls : \A i \in 1..Len(toolErr[c]) :
        (toolErr[c][i] = "failed" /\ i < idx[c] /\ pc[c] \in {"tools", "toolwait"})
            => /\ result[c] = ""
               /\ toolResults[c][i].isError

\* The worker of c handles a call that names no configured tool in this step:
\* the tool loop moves past call idx[c] without starting a tool.
NotFoundStep(c) ==
    /\ pc[c] = "tools"
    /\ pc'[c] = "tools"
    /\ idx'[c] = idx[c] + 1

\* C11: a call naming no configured tool gets the result "Tool not found:
\* <name>" with the error flag set, for that call only; no tool is invoked for
\* it, the loop goes on with the next call, no terminal event is produced, and a
\* message holding such a result whose finish reason is tool-use leads to the
\* next model round once its Tool message is stored.
C11_ToolNotFound ==
    [][\A c \in Calls :
        /\ NotFoundStep(c) =>
            LET i == idx[c] IN
                /\ toolCalls[c][i] \notin ConfiguredTools
                /\ toolResults'[c][i].isError
                /\ toolResults'[c][i].content = "Tool not found: " \o toolCalls[c][i]
                /\ \A j \in 1..Len(toolCalls[c]) :
                    j # i => toolResults'[c][j] = toolResults[c][j]
                /\ invoked'[c] = invoked[c]
                /\ i \notin invoked[c]
                /\ result'[c] = ""
                /\ finish'[c] = finish[c]
        /\ (/\ pc[c] = "out"
            /\ pc'[c] # "out"
            /\ finish[c] = FinishReasonToolUse
            /\ \E j \in 1..Len(toolResults[c]) :
                toolResults[c][j] = NotFoundResult(toolCalls[c][j]))
            => \/ pc'[c] = "decide" /\ hasToolMessage'[c] /\ result'[c] = ""
               \/ pc'[c] = "cleanup" /\ result'[c] = ErrFailed
        /\ (/\ pc[c] = "decide"
            /\ pc'[c] # "decide"
            /\ finish[c] = FinishReasonToolUse
            /\ hasToolMessage[c]
            /\ promptQueue[sess[c]] = <<>>)
            => pc'[c] = "loop" /\ result'[c] = ""]_vars

\* C11 happens: of two calls the first names no configured tool and has its
\* not-found result, and the tool of the second one was then started.
C11_Witness ==
    /\ pc[1] = "toolwait"
    /\ toolCalls[1] = <<"nope", "ls">>
    /\ toolResults[1][1] = [content |-> "Tool not found: nope", isError |-> TRUE]
    /\ invoked[1] = {2}
    /\ finish[1] = FinishReasonToolUse

\* C12: Cancel(S) invokes S's cancel handle when one is registered and leaves
\* every context and the active-request set as they are otherwise; when it
\* returns, S has no active request and S's queue is empty, which is the state
\* in which a Cancel(S) changes neither the contexts, nor the active-request
\* set, nor the queue.
C12_CancelIdempotent ==
    [][/\ (cancelPc = "idle" /\ cancelPc' = "queue") =>
            LET s == cancelSess'
                c == activeRequests[s]
            IN  /\ activeRequests' = [activeRequests EXCEPT ![s] = NoCall]
                /\ c # NoCall => /\ ctx'[c] # "live"
                                 /\ \A d \in Calls \ {c} : ctx'[d] = ctx[d]
                /\ c = NoCall => UNCHANGED <<ctx, activeRequests>>
                /\ UNCHANGED <<promptQueue, pc, result>>
       /\ (cancelPc = "queue" /\ cancelPc' = "idle") =>
            /\ activeRequests'[cancelSess] = NoCall
            /\ promptQueue'[cancelSess] = <<>>
            /\ promptQueue[cancelSess] = <<>> => UNCHANGED promptQueue
            /\ UNCHANGED <<activeRequests, ctx, pc, result>>]_vars

\* C12 happens: Cancel has returned after cancelling the turn of call 1, whose
\* worker still runs, and dropping the prompt that call 2 had queued.
C12_Witness ==
    /\ cancelPc = "idle"
    /\ ctx[1] = "canceled"
    /\ Running(1)
    /\ pc[2] = "returned"
    /\ activeRequests["s1"] = NoCall
    /\ promptQueue["s1"] = <<>>

\* C13: when CancelAll has returned without hitting its timeout, the worker of
\* every turn whose request was active when CancelAll took the session list is
\* no longer running.
C13_CancelAllWaitsForWorkers ==
    caPc = "returned" => \A c \in caInFlight : ~Running(c)

\* C14: while the request of a turn whose Run call has returned is registered as
\* active, the agent's state is not Idle.
C14_IdleOnlyWhenNoActiveRequest ==
    \A s \in Sessions :
        LET c == activeRequests[s] IN
            (c # NoCall /\ Running(c)) => state # AgentStateIdle

\* The worker of call 1 waits for a tool while its context has been cancelled
\* by Cancel.
CancelledInToolWait == pc[1] = "toolwait" /\ ctx[1] = "canceled"

\* C15: a worker that waits for a tool when Cancel has ended its context stops
\* waiting even if the tool never returns: unless the tool has returned, it
\* records the canceled result for the call and leaves the tool loop, and in
\* every case processGeneration returns.
C15_CancelUnblocksToolWait ==
    /\ CancelledInToolWait ~>
        \/ /\ pc[1] = "out"
           /\ idx[1] <= Len(toolResults[1])
           /\ toolResults[1][idx[1]] = CanceledResult
           /\ finish[1] = FinishReasonCanceled
        \/ pc[1] = "tools"
    /\ CancelledInToolWait ~> pc[1] \notin GenerationPcs

\* C15 happens: Cancel came while the only call of the message was executing,
\* the tool did not return, and the worker left the loop with the canceled
\* result.
C15_Witness ==
    /\ pc[1] = "out"
    /\ ctx[1] = "canceled"
    /\ Len(toolCalls[1]) = 1
    /\ idx[1] = 1
    /\ invoked[1] = {1}
    /\ toolErr[1] = <<"">>
    /\ toolResults[1] = <<CanceledResult>>

\* The calls other than c keep their position, context, result and received
\* events in this step, and no active-request entry or queue changes.
OthersUnaffected(c) ==
    /\ activeRequests' = activeRequests
    /\ promptQueue' = promptQueue
    /\ \A d \in Calls \ {c} :
        /\ pc'[d] = pc[d]
        /\ ctx'[d] = ctx[d]
        /\ result'[d] = result[d]
        /\ received'[d] = received[d]

\* C16: a panic inside processGeneration is recovered into an Error event, the
\* caller receives exactly that one event and the channel is closed after it;
\* neither step touches another call's worker, result or channel, an
\* active-request entry or a queue.
C16_PanicBecomesErrorEvent ==
    [][\A c \in Calls :
        /\ (pc[c] \in GenerationPcs /\ pc'[c] = "panicked")
            => /\ result'[c] = ErrPanic
               /\ received'[c] = <<>>
               /\ OthersUnaffected(c)
        /\ (pc[c] = "panicked" /\ pc'[c] # "panicked")
            => /\ pc'[c] = "done"
               /\ received'[c] = <<ErrPanic>>
               /\ OthersUnaffected(c)]_vars

\* C16 happens: the worker of call 1 panicked, its caller received the Error
\* event and the channel is closed, while the turn of call 2 on the other
\* session is registered and running.
C16_Witness ==
    /\ pc[1] = "done"
    /\ received[1] = <<ErrPanic>>
    /\ sess[2] = "s2"
    /\ activeRequests["s2"] = 2
    /\ pc[2] \in GenerationPcs

\* The step in which TrackUsage of call c saves the session.
SaveStep(c) == pc[c] = "tracksave" /\ pc'[c] = "postcheck"

\* C17: each complete event with usage U raises the stored cost of its session
\* by exactly Price(U): the save of TrackUsage leaves the stored cost at the
\* cost stored before it plus the price of the event's usage.
C17_CostRaisedByPrice ==
    [][\A c \in Calls :
        SaveStep(c) =>
            sessions'[sess[c]].cost = sessions[sess[c]].cost + Price(usage[c])]_vars

\* C18: each complete event adds its usage to the stored token totals of its
\* session: input and cache-creation tokens to the prompt tokens, output and
\* cache-read tokens to the completion tokens. The saves looked at are those
\* whose session value is still the one their Get returned.
C18_TokensAccumulate ==
    [][\A c \in Calls :
        (SaveStep(c) /\ tracked[c] = sessions[sess[c]]) =>
            /\ sessions'[sess[c]].promptTokens =
                 sessions[sess[c]].promptTokens
                    + usage[c].inputTokens + usage[c].cacheCreationTokens
            /\ sessions'[sess[c]].completionTokens =
                 sessions[sess[c]].completionTokens
                    + usage[c].outputTokens + usage[c].cacheReadTokens]_vars

\* Positions of the worker after processGeneration returned.
EndPcs == {"cleanup", "isbusy", "setidle", "finish", "done"}

\* While a provider event is applied (processEvent, with the TrackUsage of a
\* complete event), the turn of c fails for a reason other than the
\* cancellation of its context.
StreamFailure(c) ==
    /\ pc[c] \in {"stream", "track", "tracksave"}
    /\ pc'[c] = "cleanup"
    /\ ~IsCanceled(ctx[c])

\* C19: when applying a provider event fails (an error event, or a failed
\* Update, Get or Save of the store) and the failure is not a cancellation,
\* the assistant message gets finish reason Error (and the store holds Error
\* or what it held, the Update's error being discarded), no tool of the
\* message was or is invoked, the worker applies no further event and calls
\* no tool, and the turn's answer, the only event it can send, is the Error.
C19_StreamFailureEndsTurnWithError ==
    [][\A c \in Calls :
        /\ StreamFailure(c) =>
            /\ finish'[c] = FinishReasonError
            /\ persisted'[c] \in {FinishReasonError, persisted[c]}
            /\ result'[c] = ErrFailed
            /\ invoked[c] = {}
            /\ invoked'[c] = {}
        /\ pc[c] \in EndPcs =>
            /\ pc'[c] \in EndPcs
            /\ invoked'[c] = invoked[c]
            /\ pc[c] # "done" => result'[c] = result[c]
        /\ (pc[c] = "finish" /\ pc'[c] = "done" /\ result[c] = ErrFailed) =>
            received'[c] \in {<<>>, <<ErrFailed>>}]_vars

\* C19 happens: the round's complete event set finish reason tool-use with
\* calls to make, TrackUsage then failed under a live context, and the turn
\* stands after processGeneration with finish reason Error and the Error
\* answer, no tool invoked.
C19_Witness ==
    /\ pc[1] = "cleanup"
    /\ ctx[1] = "live"
    /\ hasAssistant[1]
    /\ persisted[1] = FinishReasonToolUse
    /\ finish[1] = FinishReasonError
    /\ result[1] = ErrFailed
    /\ invoked[1] = {}

\* C20: Run does not wait for a worker, a provider stream or a tool, and the
\* two mutexes cannot deadlock. Whatever the workers, Cancel, CancelAll and
\* ClearQueue are doing, a Run call that found the session busy can enqueue
\* and return, one that has registered can spawn and return, and one that is
\* about to register, like a worker or a CancelAll about to lock requestMutex,
\* can take the lock unless a Cancel holds it; that Cancel, the only holder of
\* a mutex between two steps, can always take queueMutex and release both.
C20_RunNeverBlocks ==
    /\ cancelPc # "idle" => (cancelPc = "queue" /\ ENABLED CancelQueue)
    /\ \A c \in Calls :
        /\ pc[c] = "enqueue" => ENABLED RunEnqueue(c)
        /\ pc[c] = "spawn" => ENABLED RunSpawn(c)
        /\ pc[c] = "register" => (ENABLED RunRegister(c) \/ ENABLED CancelQueue)
        /\ pc[c] = "cleanup" => (ENABLED Cleanup(c) \/ ENABLED CancelQueue)
        /\ pc[c] = "isbusy" => (ENABLED IsBusy(c) \/ ENABLED CancelQueue)
    /\ caPc = "snapshot" => (ENABLED CancelAllSnapshot \/ ENABLED CancelQueue)

\* C20 happens: the worker of call 1 is in the middle of its round while a
\* Cancel holds requestMutex and a second Run call waits to lock it.
C20_Witness ==
    /\ pc[1] \in {"stream", "track", "tracksave", "postcheck"}
    /\ cancelPc = "queue"
    /\ pc[2] = "register"

\* Agents x and y allow each other and both are enabled.
AllowEachOther(x, y) ==
    /\ x # y
    /\ {x, y} \cap cfg.disabled = {}
    /\ y \in cfg.allowed[x]
    /\ x \in cfg.allowed[y]

\* C21: with allow-lists that form a cycle, delegation goes on without bound:
\* whenever the innermost run of a chain is a run of agent x, and x and y allow
\* each other, that run can invoke y as a tool.
C21_CycleDelegatesWithoutBound ==
    \A x, y \in AgentIds :
        (mgrPc = "done" /\ chain # <<>> /\ AllowEachOther(x, y) /\ Top.id = x)
            => ToolOf(Top, y) # NoInstance

\* C30: after InitializeAgents, for every enabled agent x and every other
\* enabled agent p in x's allowed agents, the registered instance of x has the tool
\* agent_p and the instance that tool wraps is the one the manager returns
\* from Get(p).
C30_ToolWrapsRegisteredInstance ==
    mgrPc = "done" =>
        \A x, p \in AgentIds :
            (x # p /\ p \in cfg.allowed[x] /\ {x, p} \cap cfg.disabled = {}) =>
                ToolOf([id |-> x, gen |-> registry[x]], p) = registry[p]

\* C22: the name of an agent tool is "agent_" followed by its agent identifier
\* and depends on nothing else, so two tools built for different identifiers
\* have different names, also when they wrap the same agent, and two tools
\* built for the same identifier have the same name whatever they wrap.
C22_ToolNameFromIdentifier ==
    \A t1, t2 \in made :
        /\ Name(t1) = "agent_" \o t1.agentID
        /\ t1.agentID # t2.agentID => Name(t1) # Name(t2)
        /\ t1.agentID = t2.agentID => Name(t1) = Name(t2)

\* C22 happens: two tools were built around the same agent, one for the
\* identifier agent1 and one for an identifier that already starts with the
\* prefix, and a tool for agent1 wraps another agent.
C22_Witness ==
    /\ [agentID |-> "agent1", agent |-> "mock1"] \in made
    /\ [agentID |-> "agent_agent1", agent |-> "mock1"] \in made
    /\ [agentID |-> "agent1", agent |-> "mock2"] \in made

\* C23: within one assistant message the tools run one after another in the
\* order of the calls: when the tool of call i is started, it was not started
\* before, every tool started so far belongs to an earlier call, and every
\* earlier call is resolved, its slot of toolResults holding its result.
C23_ToolsRunInCallOrder ==
    [][\A c \in Calls :
        (pc[c] = "tools" /\ pc'[c] = "toolwait") =>
            LET i == idx[c] IN
                /\ i \in 1..Len(toolCalls[c])
                /\ i \notin invoked[c]
                /\ invoked'[c] = invoked[c] \cup {i}
                /\ \A j \in invoked[c] : j < i
                /\ \A j \in 1..(i - 1) : resultIds[c][j] = ToolCallID(j)]_vars

\* C23 happens: the tool of the first call has returned and the tool of the
\* second call is executing.
C23_Witness ==
    /\ pc[1] = "toolwait"
    /\ idx[1] = 2
    /\ invoked[1] = {1, 2}
    /\ toolErr[1][1] = ""
    /\ resultIds[1] = <<1, NoToolCallID>>

\* streamAndHandleEvents leaves the tool loop of call c's round and returns.
ToolLoopLeft(c) == pc[c] = "out" /\ pc'[c] # "out"

\* The results collected for the round of c: one per recorded call, in call
\* order, each with the identifier of its call.
ResultsMatchCalls(c) ==
    /\ Len(toolResults[c]) = Len(toolCalls[c])
    /\ Len(resultIds[c]) = Len(toolCalls[c])
    /\ \A i \in 1..Len(toolCalls[c]) : resultIds[c][i] = ToolCallID(i)

\* C24: after a model round no Tool message is created when the assistant
\* message recorded no tool call; otherwise one Tool message is created and
\* persisted, with one result per recorded call, in call order, each carrying
\* the identifier of its call.
C24_OneToolMessagePerRound ==
    [][\A c \in Calls :
        ToolLoopLeft(c) =>
            IF Len(toolCalls[c]) = 0
            THEN ~hasToolMessage'[c]
            ELSE hasToolMessage'[c] /\ ResultsMatchCalls(c)]_vars

\* C24, amended: as above, unless the Create of the Tool message fails: then
\* no Tool message exists and the turn ends with an Error event. The results
\* handed to Create match the calls on every path.
C24_OneToolMessageUnlessCreateFails ==
    [][\A c \in Calls :
        ToolLoopLeft(c) =>
            IF Len(toolCalls[c]) = 0
            THEN ~hasToolMessage'[c] /\ pc'[c] = "decide"
            ELSE /\ ResultsMatchCalls(c)
                 /\ \/ hasToolMessage'[c] /\ pc'[c] = "decide" /\ result'[c] = result[c]
                    \/ ~hasToolMessage'[c] /\ pc'[c] = "cleanup" /\ result'[c] = ErrFailed]_vars

\* C24 happens: the round recorded tool calls, the turn was cancelled in the
\* tool loop, and the Tool message with the results was created.
C24_Witness ==
    /\ pc[1] = "decide"
    /\ hasToolMessage[1]
    /\ finish[1] = FinishReasonCanceled
    /\ ctx[1] = "canceled"

\* processEvent applies a provider event to the assistant message of c and
\* returns nil.
EventApplied(c) == pc[c] = "stream" /\ pc'[c] \in {"postcheck", "track"}

\* C25: the provider events of a stream are applied one at a time in the order
\* received: an event is consumed only at the head of the loop, a tool-use
\* start adds its call after the calls recorded before it, and each applied
\* event comes with exactly one Update of the assistant message before the
\* loop consumes the next one; the assistant message exists in the store
\* before the stream is opened.
C25_EventsAppliedAndPersistedInOrder ==
    /\ [][\A c \in Calls :
            /\ EventApplied(c) =>
                /\ updates'[c] = 1
                /\ \/ toolCalls'[c] = toolCalls[c]
                   \/ \E n \in ToolNames : toolCalls'[c] = Append(toolCalls[c], n)
                   \/ sawComplete'[c] /\ ~sawComplete[c]
            /\ (pc[c] \in {"postcheck", "track", "tracksave"} /\ pc'[c] # pc[c]) =>
                /\ updates'[c] = updates[c] \/ pc'[c] = "cleanup"
                /\ toolCalls'[c] = toolCalls[c] \/ pc'[c] = "cleanup"]_vars
    /\ [](\A c \in Calls :
            pc[c] \in {"stream", "track", "tracksave", "postcheck"} => hasAssistant[c])

\* C25 happens: two tool-use start events were applied, each with its Update,
\* and the loop is about to consume the next event.
C25_Witness ==
    /\ pc[1] = "postcheck"
    /\ hasAssistant[1]
    /\ updates[1] = 1
    /\ Len(toolCalls[1]) = 2
    /\ ~sawComplete[1]

\* The stream of c was closed by the provider before any complete event, and
\* the worker is still in the streamAndHandleEvents call that read it.
ClosedWithoutComplete(c) == pc[c] \in {"tools", "toolwait", "out"} /\ ~sawComplete[c]

\* C26: when the provider stream closes without a complete or error event (and
\* nobody cancelled the request), the turn stops there: streamAndHandleEvents hands back a message without finish
\* reason, the message is then marked Canceled and persisted, no further round
\* is started and the terminal event is the Error with ErrRequestCancelled.
C26_UnfinishedStreamEndsCanceled ==
    [][\A c \in Calls :
        /\ (ClosedWithoutComplete(c) /\ ctx[c] = "live" /\ finish[c] = ""
                /\ pc[c] = "out" /\ pc'[c] # "out") =>
            /\ pc'[c] = "decide"
            /\ finish'[c] = ""
        /\ (pc[c] = "decide" /\ finish[c] = "" /\ pc'[c] # "decide") =>
            /\ finish'[c] = FinishReasonCanceled
            /\ persisted'[c] = FinishReasonCanceled
            /\ pc'[c] = "cleanup"
            /\ result'[c] = ErrRequestCancelled]_vars

\* C27: the cleanup of a worker never deletes the handle that another Run
\* registered for the same session: a worker that runs uncancelled keeps its own
\* handle in activeRequests, so IsSessionBusy and Cancel still reach it.
C27_CleanupKeepsNewerHandle ==
    [][\A c \in Calls :
        (pc[c] = "cleanup" /\ pc'[c] = "isbusy") =>
            \A d \in Calls \ {c} :
                (activeRequests[sess[c]] = d /\ ctx[d] = "live") =>
                    activeRequests'[sess[c]] = d]_vars

\* No goroutine of a Run call is running: every call has not started, has
\* returned after enqueueing, or its worker has exited.
NoWorkerRuns == \A d \in Calls : pc[d] \in {"idle", "returned", "done"}

\* C28: however a worker ends, its session's entry is gone from activeRequests
\* when it has exited, and once no worker is running the state is Idle and no
\* session is active, so that a later Run starts a turn.
C28_EndedWorkerLeavesAgentIdle ==
    /\ \A c \in Calls : pc[c] = "done" => activeRequests[sess[c]] # c
    /\ NoWorkerRuns =>
        /\ \A s \in Sessions : activeRequests[s] = NoCall
        /\ (\E c \in Calls : pc[c] = "done") => state = AgentStateIdle

\* C29: tool.Run is started for a call of the assistant message only if the
\* message's stream delivered a complete event; calls registered by tool-use
\* start events of a stream that closed without one are not run.
C29_ToolsRunOnlyAfterComplete ==
    [][\A c \in Calls :
        (invoked'[c] # invoked[c] /\ invoked'[c] # {}) => sawComplete[c]]_vars

====
